---------------------------- MODULE Spec2Model ----------------------------
(***************************************************************************)
(* A model of the chat / file-transfer client and server: the wire codec   *)
(* (MessageSerialization), the receive loops' frame reassembly, the        *)
(* server's registry with its accept, handler and cleanup threads, and the *)
(* file-transfer handlers of both sides.                                   *)
(*                                                                         *)
(* Bytes are the integers 0..255.  A size_t is kept as its 8 little-endian *)
(* bytes so that 64-bit arithmetic is done at full width; an int is kept   *)
(* as an integer and encoded as 4 two's-complement little-endian bytes.    *)
(* Text is a sequence of character codes.                                  *)
(***************************************************************************)
EXTENDS Integers, Sequences, FiniteSets, TLC

VARIABLES
  \* --- codec: one SerializeMessage / DeserializeMessage call pair
  c_pc, c_msg, c_data, c_out,
  \* --- receive loop of one connection (ClientHandler::Run, Client::ReceiveMessages)
  f_msgs, f_stream, f_delivered, receive_buffer_, f_dispatched, f_reads, f_last,
  senders,                \* the server threads inside ClientHandler::SendMessage of that connection
  \* --- server: Server, ClientHandler, the message handlers
  next_client_id_,        \* Server::next_client_id_
  n_accepted,             \* connections Accept() has returned so far
  a_pc, a_conn,           \* each accept loop: position, connection in hand
  worker,                 \* the ClientHandler objects, by connection number
  clients_,               \* Server::clients_
  clients_mutex_,         \* the threads inside a clients_mutex_ section
  finished_client_ids_,   \* Server::finished_client_ids_
  h_pc, h_msg, h_ptr, h_idx, h_snap, h_sent,   \* each handler thread (Run)
  cl_pc, cl_id,           \* the cleanup thread (CleanupClients)
  n_recv,                 \* Messages received by the server so far
  \* --- file transfer: two clients and the server's FileTransferHandler
  client_id_,             \* Client::client_id_ of each client
  outgoing_transfer_,     \* ClientFileTransferHandler::outgoing_transfer_
  incoming_transfer_,     \* ClientFileTransferHandler::incoming_transfer_
  send_queue_,            \* Client::send_queue_
  to_server, to_client,   \* Messages on each connection, either way
  incoming_transfers_,    \* FileTransferHandler::incoming_transfers_
  x_calls, x_ret, x_ok,   \* RequestFileTransfer: calls made, last result, successes
  received_files,         \* transfers each client has finalized
  x_conn,                 \* each client's connection: open, closed by the client, removed
  x_wrote,                \* Messages written to a connection by a peer of its own making
  \* --- the life of a ClientHandler
  handlers,               \* each ClientHandler: flags, socket, its thread's position
  registry,               \* Server: clients_, clients_mutex_, the finished queue, flags
  stoppers,               \* the threads that call ClientHandler::Stop
  \* --- the threads of a Client
  the_client,             \* Client: flags, socket, send_queue_ and its mutex
  client_threads,         \* main, send_thread_, receive_thread_: positions
  connection              \* what was pushed, what was written, the server's end

codecVars == <<c_pc, c_msg, c_data, c_out>>
frameVars ==
  <<f_msgs, f_stream, f_delivered, receive_buffer_, f_dispatched, f_reads, f_last, senders>>
acceptVars == <<next_client_id_, n_accepted, a_pc, a_conn>>
handlerVars == <<h_pc, h_msg, h_ptr, h_idx, h_snap, h_sent, n_recv>>
cleanupVars == <<cl_pc, cl_id>>
serverVars ==
  <<acceptVars, worker, clients_, clients_mutex_, finished_client_ids_, handlerVars,
    cleanupVars>>
xferVars ==
  <<client_id_, outgoing_transfer_, incoming_transfer_, send_queue_, to_server, to_client,
    incoming_transfers_, x_calls, x_ret, x_ok, received_files, x_conn, x_wrote>>
lifeVars == <<handlers, registry, stoppers>>
clientVars == <<the_client, client_threads, connection>>
vars == <<codecVars, frameVars, serverVars, xferVars, lifeVars, clientVars>>

-----------------------------------------------------------------------------
(* Message.h / MessageType.h *)

UNKNOWN == 0
CLIENT_ID_ASSIGNMENT == 1
BROADCAST_MESSAGE == 2
PRIVATE_MESSAGE == 3
FILE_TRANSFER_REQUEST == 4
FILE_DATA_CHUNK == 5
FILE_TRANSFER_COMPLETE == 6
FILE_TRANSFER_ERROR == 7

MessageType == UNKNOWN..FILE_TRANSFER_ERROR

\* sizeof(MessageHeader) on an LP64 build: three 4-byte ints, 4 bytes of
\* padding that align the 8-byte size_t, and the size_t.
kMessageHeaderSize == 24

\* The values the padding bytes of a MessageHeader can hold: they are never
\* written, so memcpy copies whatever the memory held.
PadValues == {0, 204}

-----------------------------------------------------------------------------
(* Fixed-width integers as bytes *)

RECURSIVE LEBytes(_, _)
\* the k low-order bytes of the natural number n, least significant first
LEBytes(n, k) == IF k = 0 THEN <<>> ELSE <<n % 256>> \o LEBytes(n \div 256, k - 1)

RECURSIVE FromLE(_)
\* the natural number held by little-endian bytes (the caller keeps it below 2^31)
FromLE(b) == IF b = <<>> THEN 0 ELSE b[1] + 256 * FromLE(Tail(b))

\* an int as the 4 bytes memcpy finds in memory (two's complement)
EncodeInt32(x) ==
  IF x >= 0 THEN LEBytes(x, 4)
  ELSE [i \in 1..4 |-> 255 - LEBytes(-(x + 1), 4)[i]]

\* the int memcpy stores from 4 bytes
DecodeInt32(b) ==
  IF b[4] < 128 THEN FromLE(b)
  ELSE -FromLE([i \in 1..4 |-> 255 - b[i]]) - 1

\* a size_t holding the small number n
SizeT(n) == LEBytes(n, 8)

RECURSIVE AddBytes(_, _, _)
AddBytes(a, b, carry) ==
  IF a = <<>> THEN <<>>
  ELSE LET s == a[1] + b[1] + carry
       IN <<s % 256>> \o AddBytes(Tail(a), Tail(b), s \div 256)

\* size_t addition: modulo 2^64, the carry out of the top byte is lost
SizeAdd(a, b) == AddBytes(a, b, 0)

RECURSIVE LessFrom(_, _, _)
LessFrom(a, b, i) ==
  IF i = 0 THEN FALSE
  ELSE IF a[i] # b[i] THEN a[i] < b[i]
  ELSE LessFrom(a, b, i - 1)

\* size_t comparison a < b
SizeLess(a, b) == LessFrom(a, b, 8)

\* TRUE when the size_t fits the integers the model counts with
SizeIsSmall(a) == \A i \in 4..8 : a[i] = 0

SizeToNat(a) == FromLE(SubSeq(a, 1, 3))

-----------------------------------------------------------------------------
(* Message *)

Header(type, sender_id, recipient_id, payload_size) ==
  [type |-> type, sender_id |-> sender_id, recipient_id |-> recipient_id,
   payload_size |-> payload_size]

\* Message(): header {UNKNOWN, -1, -1, 0}, no payload
DefaultMessage == [header |-> Header(UNKNOWN, -1, -1, SizeT(0)), payload |-> <<>>]

\* a Message whose payload is assigned and whose header.payload_size is left
\* at the 0 of MessageHeader's initializer
MakeMessageNoSize(type, sender_id, recipient_id, payload) ==
  [header |-> Header(type, sender_id, recipient_id, SizeT(0)),
   payload |-> payload]

\* a Message built the way every construction site of the program does it:
\* payload assigned, then header.payload_size = payload.size()
MakeMessage(type, sender_id, recipient_id, payload) ==
  [header |-> Header(type, sender_id, recipient_id, SizeT(Len(payload))),
   payload |-> payload]

\* the bytes of a MessageHeader object in memory
HeaderBytes(h, pad) ==
  EncodeInt32(h.type) \o EncodeInt32(h.sender_id) \o EncodeInt32(h.recipient_id)
    \o <<pad, pad, pad, pad>> \o h.payload_size

\* memcpy(&header, bytes, kMessageHeaderSize)
HeaderFromBytes(b) ==
  Header(DecodeInt32(SubSeq(b, 1, 4)), DecodeInt32(SubSeq(b, 5, 8)),
         DecodeInt32(SubSeq(b, 9, 12)), SubSeq(b, 17, 24))

-----------------------------------------------------------------------------
(* MessageSerialization.cpp *)

SerializeMessage(message, pad) ==
  HeaderBytes(message.header, pad) \o message.payload

\* The value a failed resize leaves behind: std::length_error / bad_alloc
\* escapes DeserializeMessage.
Thrown == [header |-> Header(UNKNOWN, -1, -1, SizeT(0)), payload |-> <<>>, thrown |-> TRUE]

DeserializeMessageDropsPayload(data) ==
  IF Len(data) < kMessageHeaderSize THEN DefaultMessage
  ELSE [header |-> HeaderFromBytes(data), payload |-> <<>>]

DeserializeMessage(data) ==
  IF Len(data) < kMessageHeaderSize THEN DefaultMessage
  ELSE LET header == HeaderFromBytes(data)
       IN IF SizeLess(SizeT(Len(data)), SizeAdd(SizeT(kMessageHeaderSize), header.payload_size))
          THEN DefaultMessage
          ELSE IF ~SizeIsSmall(header.payload_size)
                  \/ SizeToNat(header.payload_size) > Len(data) - kMessageHeaderSize
               THEN Thrown
               ELSE [header |-> header,
                     payload |-> SubSeq(data, kMessageHeaderSize + 1,
                                        kMessageHeaderSize + SizeToNat(header.payload_size))]

-----------------------------------------------------------------------------
(* Inputs of the codec and framing specifications *)

\* "hi", a NUL byte, bytes with the top bit set and a ':' among them
Payloads == {<<>>, <<0>>, <<104, 105>>, <<255, 58, 128>>}

Ids == {-1, 1, 2, 300}

\* every Message over the inputs, its declared payload_size right or wrong
CodecMessages ==
  {[header |-> Header(t, s, r, SizeT(n)), payload |-> p] :
     t \in MessageType, s \in Ids, r \in {-1, 2}, p \in Payloads, n \in {0, 1, 2, 3}}

WellSized(m) == m.header.payload_size = SizeT(Len(m.payload))

-----------------------------------------------------------------------------
(* Codec specification: SerializeMessage, then DeserializeMessage *)

FrameIdle ==
  /\ f_msgs = <<>> /\ f_stream = <<>> /\ f_delivered = 0 /\ receive_buffer_ = <<>>
  /\ f_dispatched = <<>> /\ f_reads = 0 /\ f_last = 0 /\ senders = <<>>

ServerIdle ==
  /\ next_client_id_ = 0 /\ n_accepted = 0 /\ a_pc = <<>> /\ a_conn = <<>>
  /\ worker = <<>> /\ clients_ = <<>> /\ clients_mutex_ = {}
  /\ finished_client_ids_ = <<>>
  /\ h_pc = <<>> /\ h_msg = <<>> /\ h_ptr = <<>> /\ h_idx = <<>> /\ h_snap = <<>>
  /\ h_sent = <<>> /\ cl_pc = "off" /\ cl_id = -1 /\ n_recv = 0

XferIdle ==
  /\ client_id_ = <<>>
  /\ outgoing_transfer_ = <<>>
  /\ incoming_transfer_ = <<>>
  /\ send_queue_ = <<>>
  /\ to_server = <<>>
  /\ to_client = <<>>
  /\ incoming_transfers_ = <<>>
  /\ x_calls = <<>>
  /\ x_ret = <<>>
  /\ x_ok = <<>>
  /\ received_files = <<>>
  /\ x_conn = <<>>
  /\ x_wrote = 0

ClientIdle == the_client = <<>> /\ client_threads = <<>> /\ connection = <<>>

LifeIdle == handlers = <<>> /\ registry = <<>> /\ stoppers = <<>>

CodecIdle ==
  /\ c_pc = "off" /\ c_msg = DefaultMessage /\ c_data = <<>> /\ c_out = DefaultMessage

CodecInit ==
  /\ c_pc = "start"
  /\ c_msg \in CodecMessages
  /\ c_data = <<>>
  /\ c_out = DefaultMessage
  /\ FrameIdle
  /\ ServerIdle
  /\ XferIdle
  /\ LifeIdle
  /\ ClientIdle

CodecSerialize ==
  /\ c_pc = "start"
  /\ \E pad \in PadValues : c_data' = SerializeMessage(c_msg, pad)
  /\ c_pc' = "serialized"
  /\ UNCHANGED <<c_msg, c_out, frameVars, serverVars, xferVars, lifeVars, clientVars>>

CodecDeserialize ==
  /\ c_pc = "serialized"
  /\ c_out' = DeserializeMessage(c_data)
  /\ c_pc' = "done"
  /\ UNCHANGED <<c_msg, c_data, frameVars, serverVars, xferVars, lifeVars, clientVars>>

CodecNext == CodecSerialize \/ CodecDeserialize

SpecCodec == CodecInit /\ [][CodecNext]_vars

\* C3: for every Message M whose header payload_size equals the length of
\* its payload, DeserializeMessage(SerializeMessage(M)) equals M in kind,
\* senderId, recipientId, payload_size and payload bytes.
RoundTrip ==
  (c_pc = "done" /\ WellSized(c_msg)) =>
     /\ c_out.header.type = c_msg.header.type
     /\ c_out.header.sender_id = c_msg.header.sender_id
     /\ c_out.header.recipient_id = c_msg.header.recipient_id
     /\ c_out.header.payload_size = c_msg.header.payload_size
     /\ c_out.payload = c_msg.payload

\* a message from the server (-1) with a three-byte payload went through
\* both calls, over a header whose padding was not zero
RoundTripWitness ==
  /\ c_pc = "done" /\ WellSized(c_msg)
  /\ c_msg.header.sender_id = -1 /\ c_msg.header.recipient_id = 2
  /\ Len(c_msg.payload) = 3
  /\ c_data[13] = 204
  /\ c_out.payload = <<255, 58, 128>>

-----------------------------------------------------------------------------
(* The receive loop's frame reassembly: ClientHandler::Run and            *)
(* Client::ReceiveMessages run the same code on receive_buffer_.           *)

\* std::vector<char> buffer(1024): the most one Receive call can deliver
kReceiveBufferSize == 1024

Min(a, b) == IF a <= b THEN a ELSE b

\* MessageHeader header; memcpy(&header, receive_buffer_.data(), ...):
\* the loop reads only header.payload_size of the header it peeks at
PeekPayloadSize(buf) == SubSeq(buf, 17, 24)

\* one complete frame cut off the front of the buffer, decoded, and the
\* frames after it
RECURSIVE ExtractFrames(_)
CutFrame(buf, n, rest) ==
  [buffer |-> rest.buffer,
   msgs |-> <<DeserializeMessage(SubSeq(buf, 1, n))>> \o rest.msgs]

\* the loop without the completeness test on the payload
ExtractHeaderOnly(buf) ==
  IF Len(buf) < kMessageHeaderSize THEN [buffer |-> buf, msgs |-> <<>>]
  ELSE [buffer |-> <<>>, msgs |-> <<DeserializeMessage(buf)>>]

\* while (receive_buffer_.size() >= kMessageHeaderSize) { ... }: the frames
\* the loop cuts off the front of the buffer, decoded, and what it leaves
ExtractFrames(buf) ==
  IF Len(buf) < kMessageHeaderSize THEN [buffer |-> buf, msgs |-> <<>>]
  ELSE LET total_message_size ==
             SizeAdd(SizeT(kMessageHeaderSize), PeekPayloadSize(buf))
       IN IF SizeLess(SizeT(Len(buf)), total_message_size)
          THEN [buffer |-> buf, msgs |-> <<>>]   \* break: wait for more data
          ELSE CutFrame(buf, SizeToNat(total_message_size),
                        ExtractFrames(SubSeq(buf, SizeToNat(total_message_size) + 1,
                                             Len(buf))))

\* the loop with `if` in place of `while`: one frame per read at most
FeedOneFrame(buf, chunk) ==
  IF Len(buf \o chunk) < kMessageHeaderSize
     \/ Len(buf \o chunk) < kMessageHeaderSize + SizeToNat(PeekPayloadSize(buf \o chunk))
  THEN [buffer |-> buf \o chunk, msgs |-> <<>>]
  ELSE CutFrame(buf \o chunk,
                kMessageHeaderSize + SizeToNat(PeekPayloadSize(buf \o chunk)),
                [buffer |-> SubSeq(buf \o chunk,
                                   kMessageHeaderSize
                                     + SizeToNat(PeekPayloadSize(buf \o chunk)) + 1,
                                   Len(buf \o chunk)),
                 msgs |-> <<>>])

\* bytes_received > 0: append the bytes read, then extract
Feed(buf, chunk) == ExtractFrames(buf \o chunk)

\* the Messages a peer sends: each built by MakeMessage
FrameMessages ==
  { MakeMessage(BROADCAST_MESSAGE, 1, -1, <<104, 105>>),
    MakeMessage(FILE_DATA_CHUNK, -1, 2, <<255, 58, 128>>),
    MakeMessage(FILE_TRANSFER_COMPLETE, 300, 1, <<>>) }

\* the streams: one Message, or two back to back
FrameStreams ==
  {<<m>> : m \in FrameMessages} \cup {<<m1, m2>> : m1 \in FrameMessages, m2 \in FrameMessages}

RECURSIVE StreamOf(_, _)
StreamOf(msgs, pad) ==
  IF msgs = <<>> THEN <<>>
  ELSE SerializeMessage(Head(msgs), pad) \o StreamOf(Tail(msgs), pad)

FrameInit ==
  /\ f_msgs \in FrameStreams
  /\ \E pad \in PadValues : f_stream = StreamOf(f_msgs, pad)
  /\ f_delivered = 0
  /\ receive_buffer_ = <<>>
  /\ f_dispatched = <<>>
  /\ f_reads = 0
  /\ f_last = 0
  /\ senders = <<>>
  /\ CodecIdle
  /\ ServerIdle
  /\ XferIdle
  /\ LifeIdle
  /\ ClientIdle

\* One pass of the loop body with bytes_received > 0: Receive returns the
\* next n bytes of the stream, n chosen by the transport.
FrameReceive ==
  /\ f_delivered < Len(f_stream)
  /\ \E n \in 1..Min(Len(f_stream) - f_delivered, kReceiveBufferSize) :
       \E r \in {Feed(receive_buffer_, SubSeq(f_stream, f_delivered + 1, f_delivered + n))} :
          /\ receive_buffer_' = r.buffer
          /\ f_dispatched' = f_dispatched \o r.msgs
          /\ f_last' = Len(r.msgs)
          /\ f_delivered' = f_delivered + n
  /\ f_reads' = f_reads + 1
  /\ UNCHANGED <<f_msgs, f_stream, senders, codecVars, serverVars, xferVars, lifeVars, clientVars>>

FrameNext == FrameReceive

SpecFrame == FrameInit /\ [][FrameNext]_vars

\* C1: the bytes of one complete encoded Message, delivered as N >= 1 reads
\* with any split points, dispatch no Message before the last read and
\* exactly one Message, equal to the original, after it.
FramingUnderSplitting ==
  Len(f_msgs) = 1 =>
     /\ f_delivered < Len(f_stream) => f_dispatched = <<>>
     /\ f_delivered = Len(f_stream) =>
          /\ Len(f_dispatched) = 1
          /\ f_dispatched[1].header.type = f_msgs[1].header.type
          /\ f_dispatched[1].header.sender_id = f_msgs[1].header.sender_id
          /\ f_dispatched[1].header.recipient_id = f_msgs[1].header.recipient_id
          /\ f_dispatched[1].payload = f_msgs[1].payload

\* a Message with a payload arrived in four reads and was dispatched by the last
FramingUnderSplittingWitness ==
  /\ Len(f_msgs) = 1 /\ f_msgs[1].payload = <<255, 58, 128>>
  /\ f_reads = 4 /\ f_delivered = Len(f_stream)
  /\ f_dispatched = f_msgs /\ f_last = 1

\* C2: one read that delivers two complete encoded Messages back to back
\* dispatches both, in stream order, while that read is processed, and
\* leaves the receive buffer empty.
TwoFramesInOneRead ==
  (Len(f_msgs) = 2 /\ f_reads = 1 /\ f_delivered = Len(f_stream)) =>
     /\ f_dispatched = f_msgs
     /\ f_last = 2
     /\ receive_buffer_ = <<>>

\* two different Messages came with the first read and both were dispatched
TwoFramesInOneReadWitness ==
  /\ Len(f_msgs) = 2 /\ f_msgs[1] # f_msgs[2]
  /\ f_reads = 1 /\ f_delivered = Len(f_stream)
  /\ f_dispatched = f_msgs /\ f_last = 2 /\ receive_buffer_ = <<>>


-----------------------------------------------------------------------------
(* Text *)

RECURSIVE Digits(_)
Digits(n) == IF n < 10 THEN <<48 + n>> ELSE Digits(n \div 10) \o <<48 + (n % 10)>>

\* std::to_string(int)
to_string(n) == IF n < 0 THEN <<45>> \o Digits(-n) ELSE Digits(n)

\* "Client ", ": ", "hi"
TextClient == <<67, 108, 105, 101, 110, 116, 32>>
TextColonSpace == <<58, 32>>
TextHi == <<104, 105>>
\* "Recipient client disconnected during transfer."
TextRecipientDisconnected ==
  << 82, 101, 99, 105, 112, 105, 101, 110, 116, 32, 99, 108, 105, 101, 110, 116,
     32, 100, 105, 115, 99, 111, 110, 110, 101, 99, 116, 101, 100, 32, 100, 117,
     114, 105, 110, 103, 32, 116, 114, 97, 110, 115, 102, 101, 114, 46 >>

Contains(hay, needle) ==
  \E i \in 0..(Len(hay) - Len(needle)) : SubSeq(hay, i + 1, i + Len(needle)) = needle

SeqToSet(q) == {q[i] : i \in 1..Len(q)}

-----------------------------------------------------------------------------
(* Server.cpp, ClientHandler.cpp, BroadcastMessageHandler.cpp and the      *)
(* relay branch of FileTransferHandler.cpp, thread by thread.  A           *)
(* ClientHandler object is named by the number of its connection in the    *)
(* order Accept() returned them; its client_id_ is worker[w].id.           *)

\* connections the listening socket hands out
MaxConns == 3
\* Messages the server receives in one run
MaxRecv == 2
\* connections whose peer goes away in one run
MaxGone == 1

Workers == 1..MaxConns

\* Server::Start spawns accept_thread_ on AcceptConnections (Server.cpp:57)
\* and main then calls AcceptConnections itself (server_main.cpp:70).
AcceptLoops == {"accept_thread_", "main"}
CleanupThread == "cleanup_thread_"
HandlerThread(w) == <<"handler_thread_", w>>

NullPtr == 0

Unborn == [id |-> 0, running_ |-> FALSE, valid |-> FALSE, life |-> "none", greeting |-> <<>>]

\* the server process has not been killed
ServerUp == cl_pc # "crashed"

\* std::lock_guard<std::mutex> lock(clients_mutex_): entry to the section
CanLockUnguarded(t) == TRUE
CanLock(t) == clients_mutex_ = {}

\* a send attempt as the handlers' histories record it: the worker the
\* call was made on, the Message, whether that object still existed, and
\* what SendMessage returned (false on a socket that is no longer valid)
Attempt(w, message) ==
  [to |-> w, msg |-> message, live |-> worker[w].life = "alive",
   ok |-> worker[w].life = "alive" /\ worker[w].valid]

\* for (client : clients_) if (client.get() != sender) client->SendMessage(message)
ShouldSend(client, sender) == client # sender

\* BroadcastMessageHandler::HandleMessage: the Message it builds
BroadcastFromHeader(message, sender_client_id) ==
  MakeMessage(BROADCAST_MESSAGE, message.header.sender_id, -1,
              TextClient \o to_string(message.header.sender_id) \o TextColonSpace
                \o message.payload)
BroadcastMsg(message, sender_client_id) ==
  MakeMessage(BROADCAST_MESSAGE, sender_client_id, -1,
              TextClient \o to_string(sender_client_id) \o TextColonSpace \o message.payload)

\* FileTransferHandler::SendFileTransferError: the Message it builds
FileTransferErrorMsg(recipient_id, error_message) ==
  MakeMessage(FILE_TRANSFER_ERROR, -1, recipient_id, error_message)

\* Server::AcceptConnections: the Message that carries the assigned id
IdAssignmentMsg(assigned_client_id) ==
  MakeMessage(CLIENT_ID_ASSIGNMENT, -1, assigned_client_id, to_string(assigned_client_id))

\* Server::GetClientHandler: the first registered handler with that id
GetClientHandler(client_id) ==
  IF \E i \in 1..Len(clients_) : worker[clients_[i]].id = client_id
  THEN clients_[CHOOSE i \in 1..Len(clients_) :
                  /\ worker[clients_[i]].id = client_id
                  /\ \A j \in 1..(i - 1) : worker[clients_[j]].id # client_id]
  ELSE NullPtr

\* an id no connection of a run is given
StrangerId == 9

\* what a client may put on its connection: a chat line under its own id or
\* under another one, a chunk for any client, a private message
ClientInputs(w) ==
  {MakeMessage(BROADCAST_MESSAGE, sid, -1, TextHi) : sid \in {worker[w].id, StrangerId}}
  \cup {MakeMessage(FILE_DATA_CHUNK, worker[w].id, r, <<255, 58>>) :
          r \in (1..MaxConns) \cup {StrangerId}}
  \cup {MakeMessage(PRIVATE_MESSAGE, worker[w].id, 1, TextHi)}

ServerInit ==
  /\ next_client_id_ = 1
  /\ n_accepted = 0
  /\ a_pc = [t \in AcceptLoops |-> "accept"]
  /\ a_conn = [t \in AcceptLoops |-> 0]
  /\ worker = [w \in Workers |-> Unborn]
  /\ clients_ = <<>>
  /\ clients_mutex_ = {}
  /\ finished_client_ids_ = <<>>
  /\ h_pc = [w \in Workers |-> "none"]
  /\ h_msg = [w \in Workers |-> DefaultMessage]
  /\ h_ptr = [w \in Workers |-> NullPtr]
  /\ h_idx = [w \in Workers |-> 0]
  /\ h_snap = [w \in Workers |-> {}]
  /\ h_sent = [w \in Workers |-> <<>>]
  /\ cl_pc = "wait"
  /\ cl_id = -1
  /\ n_recv = 0
  /\ CodecIdle
  /\ FrameIdle
  /\ XferIdle
  /\ LifeIdle
  /\ ClientIdle

\* server_socket_->Accept() returns the next connection (Server.cpp:112)
AcceptReturn(t) ==
  /\ ServerUp
  /\ a_pc[t] = "accept"
  /\ n_accepted < MaxConns
  /\ n_accepted' = n_accepted + 1
  /\ a_conn' = [a_conn EXCEPT ![t] = n_accepted + 1]
  /\ a_pc' = [a_pc EXCEPT ![t] = "assign"]
  /\ UNCHANGED <<next_client_id_, worker, clients_, clients_mutex_, finished_client_ids_,
                 handlerVars, cleanupVars, codecVars, frameVars, xferVars, lifeVars, clientVars>>

AcceptAssignSilent(t) ==
  /\ ServerUp
  /\ a_pc[t] = "assign"
  /\ next_client_id_' = next_client_id_ + 1
  /\ worker' = [worker EXCEPT ![a_conn[t]] =
                  [id |-> next_client_id_, running_ |-> FALSE, valid |-> TRUE,
                   life |-> "alive", greeting |-> <<>>]]
  /\ a_pc' = [a_pc EXCEPT ![t] = "register"]
  /\ UNCHANGED <<n_accepted, a_conn, clients_, clients_mutex_, finished_client_ids_,
                 handlerVars, cleanupVars, codecVars, frameVars, xferVars, lifeVars, clientVars>>

\* next_client_id_++, the ClientHandler is made and sent its id (Server.cpp:115-138)
AcceptAssign(t) ==
  /\ ServerUp
  /\ a_pc[t] = "assign"
  /\ next_client_id_' = next_client_id_ + 1
  /\ worker' = [worker EXCEPT ![a_conn[t]] =
                  [id |-> next_client_id_, running_ |-> FALSE, valid |-> TRUE,
                   life |-> "alive", greeting |-> <<IdAssignmentMsg(next_client_id_)>>]]
  /\ a_pc' = [a_pc EXCEPT ![t] = "register"]
  /\ UNCHANGED <<n_accepted, a_conn, clients_, clients_mutex_, finished_client_ids_,
                 handlerVars, cleanupVars, codecVars, frameVars, xferVars, lifeVars, clientVars>>

\* under clients_mutex_: clients_.push_back, clients_.back()->Start() (Server.cpp:141-143)
AcceptRegister(t) ==
  /\ ServerUp
  /\ a_pc[t] = "register"
  /\ CanLock(t)
  /\ clients_' = Append(clients_, a_conn[t])
  /\ worker' = [worker EXCEPT ![a_conn[t]].running_ = TRUE]
  /\ h_pc' = [h_pc EXCEPT ![a_conn[t]] = "recv"]
  /\ a_pc' = [a_pc EXCEPT ![t] = "accept"]
  /\ a_conn' = [a_conn EXCEPT ![t] = 0]
  /\ UNCHANGED <<next_client_id_, n_accepted, clients_mutex_, finished_client_ids_,
                 h_msg, h_ptr, h_idx, h_snap, h_sent, n_recv, cleanupVars, codecVars,
                 frameVars, xferVars, lifeVars, clientVars>>

\* Run: a complete Message arrives and CompositeMessageHandler offers it to
\* BroadcastMessageHandler, then to FileTransferHandler.  A broadcast goes
\* on to wait for clients_mutex_, a chunk for another client to look its
\* recipient up, any other kind is claimed by no handler and dropped.
HandlerReceive(w) ==
  /\ ServerUp
  /\ h_pc[w] = "recv"
  /\ worker[w].running_ /\ worker[w].valid
  /\ n_recv < MaxRecv
  /\ n_recv' = n_recv + 1
  /\ \E m \in ClientInputs(w) :
       /\ h_msg' = [h_msg EXCEPT ![w] = m]
       /\ h_pc' = [h_pc EXCEPT ![w] =
                     CASE m.header.type = BROADCAST_MESSAGE -> "bcast_lock"
                       [] m.header.type = FILE_DATA_CHUNK -> "lookup"
                       [] OTHER -> "recv"]
  /\ h_sent' = [h_sent EXCEPT ![w] = <<>>]
  /\ h_snap' = [h_snap EXCEPT ![w] = {}]
  /\ h_ptr' = [h_ptr EXCEPT ![w] = NullPtr]
  /\ h_idx' = [h_idx EXCEPT ![w] = 0]
  /\ UNCHANGED <<acceptVars, worker, clients_, clients_mutex_, finished_client_ids_,
                 cleanupVars, codecVars, frameVars, xferVars, lifeVars, clientVars>>

\* Server::BroadcastMessage: the lock_guard is taken (Server.cpp:199)
BroadcastLock(w) ==
  /\ ServerUp
  /\ h_pc[w] = "bcast_lock"
  /\ CanLock(HandlerThread(w))
  /\ clients_mutex_' = clients_mutex_ \cup {HandlerThread(w)}
  /\ h_snap' = [h_snap EXCEPT ![w] = SeqToSet(clients_)]
  /\ h_idx' = [h_idx EXCEPT ![w] = 1]
  /\ h_pc' = [h_pc EXCEPT ![w] = "bcast"]
  /\ UNCHANGED <<acceptVars, worker, clients_, finished_client_ids_, h_msg, h_ptr, h_sent,
                 n_recv, cleanupVars, codecVars, frameVars, xferVars, lifeVars, clientVars>>

\* one turn of the loop over clients_ (Server.cpp:200-211)
BroadcastStep(w) ==
  /\ ServerUp
  /\ h_pc[w] = "bcast"
  /\ h_idx[w] <= Len(clients_)
  /\ h_sent' = [h_sent EXCEPT ![w] =
                  IF ShouldSend(clients_[h_idx[w]], w)
                  THEN Append(@, Attempt(clients_[h_idx[w]],
                                         BroadcastMsg(h_msg[w], worker[w].id)))
                  ELSE @]
  /\ h_idx' = [h_idx EXCEPT ![w] = @ + 1]
  /\ UNCHANGED <<acceptVars, worker, clients_, clients_mutex_, finished_client_ids_, h_pc,
                 h_msg, h_ptr, h_snap, n_recv, cleanupVars, codecVars, frameVars, xferVars, lifeVars, clientVars>>

\* the loop is over, the lock_guard is released (Server.cpp:212-213)
BroadcastUnlock(w) ==
  /\ ServerUp
  /\ h_pc[w] = "bcast"
  /\ h_idx[w] > Len(clients_)
  /\ clients_mutex_' = clients_mutex_ \ {HandlerThread(w)}
  /\ h_pc' = [h_pc EXCEPT ![w] = "recv"]
  /\ UNCHANGED <<acceptVars, worker, clients_, finished_client_ids_, h_msg, h_ptr, h_idx,
                 h_snap, h_sent, n_recv, cleanupVars, codecVars, frameVars, xferVars, lifeVars, clientVars>>

\* HandleFileDataChunk, recipient_id != -1: server->GetClientHandler
\* (FileTransferHandler.cpp:234-235), a clients_mutex_ section of its own
ChunkLookup(w) ==
  /\ ServerUp
  /\ h_pc[w] = "lookup"
  /\ CanLock(HandlerThread(w))
  /\ h_ptr' = [h_ptr EXCEPT ![w] = GetClientHandler(h_msg[w].header.recipient_id)]
  /\ h_pc' = [h_pc EXCEPT ![w] =
                IF GetClientHandler(h_msg[w].header.recipient_id) # NullPtr
                THEN "forward" ELSE "err_send"]
  /\ UNCHANGED <<acceptVars, worker, clients_, clients_mutex_, finished_client_ids_, h_msg,
                 h_idx, h_snap, h_sent, n_recv, cleanupVars, codecVars, frameVars, xferVars, lifeVars, clientVars>>

\* recipient_handler->SendMessage(message) (FileTransferHandler.cpp:237-241)
ChunkForward(w) ==
  /\ ServerUp
  /\ h_pc[w] = "forward"
  /\ h_sent' = [h_sent EXCEPT ![w] = Append(@, Attempt(h_ptr[w], h_msg[w]))]
  /\ h_pc' = [h_pc EXCEPT ![w] = "recv"]
  /\ UNCHANGED <<acceptVars, worker, clients_, clients_mutex_, finished_client_ids_, h_msg,
                 h_ptr, h_idx, h_snap, n_recv, cleanupVars, codecVars, frameVars, xferVars, lifeVars, clientVars>>

ErrorDropped(w) ==
  /\ ServerUp
  /\ h_pc[w] = "err_send"
  /\ h_pc' = [h_pc EXCEPT ![w] = "recv"]
  /\ UNCHANGED <<acceptVars, worker, clients_, clients_mutex_, finished_client_ids_, h_msg,
                 h_ptr, h_idx, h_snap, h_sent, n_recv, cleanupVars, codecVars, frameVars, xferVars, lifeVars, clientVars>>

\* SendFileTransferError(sender->GetClientId(), ...): GetClientHandler finds
\* the handler whose thread is making the call, and the error Message is
\* sent on it (FileTransferHandler.cpp:245, 353-376)
ErrorSend(w) ==
  /\ ServerUp
  /\ h_pc[w] = "err_send"
  /\ CanLock(HandlerThread(w))
  /\ h_ptr' = [h_ptr EXCEPT ![w] = GetClientHandler(worker[w].id)]
  /\ h_sent' = [h_sent EXCEPT ![w] =
                  IF GetClientHandler(worker[w].id) # NullPtr
                  THEN Append(@, Attempt(GetClientHandler(worker[w].id),
                                         FileTransferErrorMsg(worker[w].id,
                                                              TextRecipientDisconnected)))
                  ELSE @]
  /\ h_pc' = [h_pc EXCEPT ![w] = "recv"]
  /\ UNCHANGED <<acceptVars, worker, clients_, clients_mutex_, finished_client_ids_, h_msg,
                 h_idx, h_snap, n_recv, cleanupVars, codecVars, frameVars, xferVars, lifeVars, clientVars>>

\* Run: Receive returns 0 or an error: running_ = false,
\* SignalClientFinished(client_id_), the loop is left, the socket is closed
\* and the thread ends (ClientHandler.cpp:365-404, Server.cpp:270-276)
HandlerDisconnect(w) ==
  /\ ServerUp
  /\ h_pc[w] = "recv"
  /\ Cardinality({v \in Workers : h_pc[v] = "done"}) < MaxGone
  /\ worker' = [worker EXCEPT ![w].running_ = FALSE, ![w].valid = FALSE]
  /\ finished_client_ids_' = Append(finished_client_ids_, worker[w].id)
  /\ h_pc' = [h_pc EXCEPT ![w] = "done"]
  /\ UNCHANGED <<acceptVars, clients_, clients_mutex_, h_msg, h_ptr, h_idx, h_snap, h_sent,
                 n_recv, cleanupVars, codecVars, frameVars, xferVars, lifeVars, clientVars>>

\* CleanupClients pops an id off the queue and calls RemoveClient: the
\* lock_guard is taken and std::remove_if runs over clients_
\* (Server.cpp:171-186, 226-231).  A handler found in the last place stays
\* where it is, `it` points at it, and Stop() clears running_ and closes its
\* socket (ClientHandler.cpp:252-260).  A handler found before the last
\* place is overwritten by the move assignment of the entry behind it, which
\* destroys it (~ClientHandler detaches its thread), and `it` points at the
\* moved-from, null, last entry.
RemoveClientLock ==
  /\ ServerUp
  /\ cl_pc = "wait"
  /\ finished_client_ids_ # <<>>
  /\ CanLock(CleanupThread)
  /\ finished_client_ids_' = Tail(finished_client_ids_)
  /\ \E found \in {GetClientHandler(Head(finished_client_ids_))} :
       IF found = NullPtr
       THEN UNCHANGED <<clients_, clients_mutex_, worker, cl_pc, cl_id>>
       ELSE /\ clients_mutex_' = clients_mutex_ \cup {CleanupThread}
            /\ cl_id' = Head(finished_client_ids_)
            /\ IF found = clients_[Len(clients_)]
               THEN /\ worker' = [worker EXCEPT ![found].running_ = FALSE,
                                                ![found].valid = FALSE]
                    /\ cl_pc' = "join"
                    /\ UNCHANGED clients_
               ELSE /\ worker' = [worker EXCEPT ![found].life = "destroyed",
                                                ![found].valid = FALSE]
                    /\ clients_' = SelectSeq(clients_, LAMBDA c : c # found)
                    /\ cl_pc' = "null_stop"
  /\ UNCHANGED <<acceptVars, handlerVars, codecVars, frameVars, xferVars, lifeVars, clientVars>>

\* Stop(): handler_thread_.join() returns; the entry is erased, which
\* destroys the ClientHandler, and the lock_guard is released
\* (ClientHandler.cpp:265-267, Server.cpp:241-249)
RemoveClientErase ==
  /\ ServerUp
  /\ cl_pc = "join"
  /\ h_pc[GetClientHandler(cl_id)] = "done"
  /\ worker' = [worker EXCEPT ![GetClientHandler(cl_id)].life = "destroyed"]
  /\ clients_' = SelectSeq(clients_, LAMBDA c : c # GetClientHandler(cl_id))
  /\ clients_mutex_' = clients_mutex_ \ {CleanupThread}
  /\ cl_pc' = "wait"
  /\ cl_id' = -1
  /\ UNCHANGED <<acceptVars, finished_client_ids_, handlerVars, codecVars, frameVars, xferVars, lifeVars, clientVars>>

\* static_cast<ClientHandler *>(it->get())->Stop() with it->get() null
\* (Server.cpp:238): a member call through a null pointer, whose first
\* statement stores to running_.  Either the store faults and the process
\* dies, or the call comes back and the null entry is erased.
RemoveClientNullStop ==
  /\ ServerUp
  /\ cl_pc = "null_stop"
  /\ \E outcome \in {"crashed", "wait"} :
       /\ cl_pc' = outcome
       /\ clients_mutex_' = IF outcome = "wait" THEN clients_mutex_ \ {CleanupThread}
                            ELSE clients_mutex_
       /\ cl_id' = IF outcome = "wait" THEN -1 ELSE cl_id
  /\ UNCHANGED <<acceptVars, worker, clients_, finished_client_ids_, handlerVars, codecVars,
                 frameVars, xferVars, lifeVars, clientVars>>

ServerNext ==
  \/ \E t \in AcceptLoops : AcceptReturn(t) \/ AcceptAssign(t) \/ AcceptRegister(t)
  \/ \E w \in Workers :
       \/ HandlerReceive(w)
       \/ BroadcastLock(w) \/ BroadcastStep(w) \/ BroadcastUnlock(w)
       \/ ChunkLookup(w) \/ ChunkForward(w) \/ ErrorSend(w)
       \/ HandlerDisconnect(w)
  \/ RemoveClientLock \/ RemoveClientErase \/ RemoveClientNullStop

SpecServer == ServerInit /\ [][ServerNext]_vars

\* the workers a finished or running loop over clients_ has called SendMessage on
Targets(w) == {h_sent[w][i].to : i \in 1..Len(h_sent[w])}

\* the part of clients_ the loop of w has passed, without w itself
Passed(w) == SelectSeq(SubSeq(clients_, 1, h_idx[w] - 1), LAMBDA c : c # w)

\* C4: Server::BroadcastMessage(M, W) calls SendMessage(M) exactly once on
\* every worker that is in clients_ when the broadcast takes the lock, except
\* W, and on no other worker; clients_ does not change while the loop runs, a
\* send that fails does not end the loop, and no call is made on a worker the
\* cleanup thread has already destroyed.
BroadcastReachesRegistry ==
  \A w \in Workers :
    /\ h_pc[w] = "bcast" =>
         /\ h_snap[w] = SeqToSet(clients_)
         /\ Len(h_sent[w]) = Len(Passed(w))
         /\ \A i \in 1..Len(h_sent[w]) : h_sent[w][i].to = Passed(w)[i]
    /\ (h_pc[w] = "recv" /\ h_msg[w].header.type = BROADCAST_MESSAGE) =>
         /\ Targets(w) = h_snap[w] \ {w}
         /\ Len(h_sent[w]) = Cardinality(h_snap[w] \ {w})
    /\ h_msg[w].header.type = BROADCAST_MESSAGE =>
         \A i \in 1..Len(h_sent[w]) :
           /\ h_sent[w][i].live
           /\ h_sent[w][i].msg = BroadcastMsg(h_msg[w], worker[w].id)

\* a finished broadcast whose first send failed, on a worker whose peer had
\* gone and which the cleanup thread had not yet removed, and whose second
\* send succeeded
BroadcastReachesRegistryWitness ==
  \E w \in Workers :
    /\ h_pc[w] = "recv"
    /\ h_msg[w].header.type = BROADCAST_MESSAGE
    /\ Len(h_sent[w]) = 2
    /\ ~h_sent[w][1].ok
    /\ h_sent[w][2].ok

\* C5: when the client on a connection with assigned id i sends a BROADCAST
\* with text t, whatever sender id its header carries, every other registered
\* client is sent a BROADCAST whose sender_id is i and whose payload contains
\* t, and nothing is sent to the sending client.
EndToEndBroadcast ==
  \A w \in Workers :
    h_msg[w].header.type = BROADCAST_MESSAGE =>
      /\ \A i \in 1..Len(h_sent[w]) :
           /\ h_sent[w][i].to # w
           /\ worker[h_sent[w][i].to].id # worker[w].id
           /\ h_sent[w][i].msg.header.type = BROADCAST_MESSAGE
           /\ h_sent[w][i].msg.header.sender_id = worker[w].id
           /\ worker[w].greeting = <<IdAssignmentMsg(h_sent[w][i].msg.header.sender_id)>>
           /\ Contains(h_sent[w][i].msg.payload, h_msg[w].payload)
           /\ h_sent[w][i].msg.header.payload_size = SizeT(Len(h_sent[w][i].msg.payload))
      /\ h_pc[w] = "recv" => \A c \in SeqToSet(clients_) \cap h_snap[w] : c # w => c \in Targets(w)

\* a client that wrote another id into its header has had its line sent on
\* to two other clients
EndToEndBroadcastWitness ==
  \E w \in Workers :
    /\ h_pc[w] = "recv"
    /\ h_msg[w].header.type = BROADCAST_MESSAGE
    /\ h_msg[w].header.sender_id = StrangerId
    /\ h_msg[w].payload = TextHi
    /\ Len(h_sent[w]) = 2
    /\ h_sent[w][1].ok /\ h_sent[w][2].ok

\* C6: the first accepted connection gets id 1, every later accepted
\* connection a strictly larger id, no two connections the same id, removed
\* or not, and -1 is never assigned.
ClientIdentifiers ==
  \A w \in Workers :
    worker[w].life # "none" =>
      /\ worker[w].id # -1
      /\ w = 1 => worker[w].id = 1
      /\ \A v \in Workers :
           (v < w /\ worker[v].life # "none") => worker[v].id < worker[w].id
      /\ \A v \in Workers :
           (v # w /\ worker[v].life # "none") => worker[v].id # worker[w].id

\* C10: a TRANSFER_CHUNK whose recipient_id names no registered worker takes
\* the handler to SendFileTransferError, which sends one TRANSFER_ERROR from
\* the server (-1) on the connection the chunk came in on, and the handler
\* thread goes back to receiving.
ChunkForUnregisteredStep ==
  \A w \in Workers :
    /\ ( /\ h_pc[w] = "lookup" /\ h_pc'[w] # "lookup"
         /\ GetClientHandler(h_msg[w].header.recipient_id) = NullPtr )
       => h_pc'[w] = "err_send"
    /\ (h_pc[w] = "err_send" /\ h_pc'[w] # "err_send") =>
         /\ h_pc'[w] = "recv"
         /\ worker'[w].running_ /\ worker'[w].life = "alive"
         /\ Len(h_sent'[w]) = 1
         /\ h_sent'[w][1].to = w
         /\ h_sent'[w][1].ok
         /\ h_sent'[w][1].msg.header.type = FILE_TRANSFER_ERROR
         /\ h_sent'[w][1].msg.header.sender_id = -1
         /\ h_sent'[w][1].msg.header.recipient_id = worker[w].id
         /\ h_sent'[w][1].msg.payload = TextRecipientDisconnected
ChunkForUnregistered == [][ChunkForUnregisteredStep]_vars

\* a chunk addressed to a client that had been registered and was removed
\* has been answered with a TRANSFER_ERROR
ChunkForUnregisteredWitness ==
  \E w \in Workers :
    /\ h_pc[w] = "recv"
    /\ h_msg[w].header.type = FILE_DATA_CHUNK
    /\ \E v \in Workers : /\ worker[v].life = "destroyed"
                          /\ h_msg[w].header.recipient_id = worker[v].id
    /\ Len(h_sent[w]) = 1
    /\ h_sent[w][1].msg.header.type = FILE_TRANSFER_ERROR
    /\ h_sent[w][1].to = w

-----------------------------------------------------------------------------
(* File transfer: ClientFileTransferHandler.cpp and Client.cpp on two      *)
(* clients, FileTransferHandler.cpp on the server between them.  Both      *)
(* clients stay connected and registered; client c is the connection the   *)
(* server gave id c.                                                       *)

\* "READY"
TextReady == << 82, 69, 65, 68, 89 >>
\* "SUCCESS"
TextSuccess == << 83, 85, 67, 67, 69, 83, 83 >>
\* "Invalid file transfer request."
TextInvalidRequest ==
  << 73, 110, 118, 97, 108, 105, 100, 32, 102, 105, 108, 101, 32, 116, 114, 97,
     110, 115, 102, 101, 114, 32, 114, 101, 113, 117, 101, 115, 116, 46 >>
\* "Invalid file transfer request format."
TextInvalidFormat ==
  << 73, 110, 118, 97, 108, 105, 100, 32, 102, 105, 108, 101, 32, 116, 114, 97,
     110, 115, 102, 101, 114, 32, 114, 101, 113, 117, 101, 115, 116, 32, 102, 111,
     114, 109, 97, 116, 46 >>
\* "Another transfer is already in progress."
TextAnotherTransfer ==
  << 65, 110, 111, 116, 104, 101, 114, 32, 116, 114, 97, 110, 115, 102, 101, 114,
     32, 105, 115, 32, 97, 108, 114, 101, 97, 100, 121, 32, 105, 110, 32, 112,
     114, 111, 103, 114, 101, 115, 115, 46 >>
\* "Recipient client not found."
TextRecipientNotFound ==
  << 82, 101, 99, 105, 112, 105, 101, 110, 116, 32, 99, 108, 105, 101, 110, 116,
     32, 110, 111, 116, 32, 102, 111, 117, 110, 100, 46 >>
\* "Error processing file transfer request."
TextErrorProcessing ==
  << 69, 114, 114, 111, 114, 32, 112, 114, 111, 99, 101, 115, 115, 105, 110, 103,
     32, 102, 105, 108, 101, 32, 116, 114, 97, 110, 115, 102, 101, 114, 32, 114,
     101, 113, 117, 101, 115, 116, 46 >>
\* "Received data for unknown transfer."
TextUnknownTransfer ==
  << 82, 101, 99, 101, 105, 118, 101, 100, 32, 100, 97, 116, 97, 32, 102, 111,
     114, 32, 117, 110, 107, 110, 111, 119, 110, 32, 116, 114, 97, 110, 115, 102,
     101, 114, 46 >>
\* "Received completion for unknown transfer."
TextUnknownCompletion ==
  << 82, 101, 99, 101, 105, 118, 101, 100, 32, 99, 111, 109, 112, 108, 101, 116,
     105, 111, 110, 32, 102, 111, 114, 32, 117, 110, 107, 110, 111, 119, 110, 32,
     116, 114, 97, 110, 115, 102, 101, 114, 46 >>
\* "Recipient is busy with another transfer."
TextRecipientBusy ==
  << 82, 101, 99, 105, 112, 105, 101, 110, 116, 32, 105, 115, 32, 98, 117, 115,
     121, 32, 119, 105, 116, 104, 32, 97, 110, 111, 116, 104, 101, 114, 32, 116,
     114, 97, 110, 115, 102, 101, 114, 46 >>
\* "Received file size mismatch."
TextSizeMismatch ==
  << 82, 101, 99, 101, 105, 118, 101, 100, 32, 102, 105, 108, 101, 32, 115, 105,
     122, 101, 32, 109, 105, 115, 109, 97, 116, 99, 104, 46 >>

\* "Recipient file stream not open."
TextStreamNotOpen ==
  << 82, 101, 99, 105, 112, 105, 101, 110, 116, 32, 102, 105, 108, 101, 32, 115,
     116, 114, 101, 97, 109, 32, 110, 111, 116, 32, 111, 112, 101, 110, 46 >>
Colon == 58
Slash == 47
Minus == 45

IsDigit(ch) == ch >= 48 /\ ch <= 57

\* std::string::find(ch, from): the 1-based place of the first ch at or
\* after place from, 0 for npos
Find(str, ch, from) ==
  IF \E i \in from..Len(str) : str[i] = ch
  THEN CHOOSE i \in from..Len(str) : str[i] = ch /\ \A j \in from..(i - 1) : str[j] # ch
  ELSE 0

\* the length of the longest prefix of digits
RECURSIVE DigitsPrefix(_)
DigitsPrefix(str) ==
  IF str # <<>> /\ IsDigit(Head(str)) THEN 1 + DigitsPrefix(Tail(str)) ELSE 0

RECURSIVE DigitsValue(_)
DigitsValue(str) ==
  IF str = <<>> THEN 0 ELSE 10 * DigitsValue(SubSeq(str, 1, Len(str) - 1)) + (str[Len(str)] - 48)

\* std::stoull on text that carries no blanks and no sign: the digits at the
\* front, std::invalid_argument when there are none
stoull(str) ==
  IF DigitsPrefix(str) = 0 THEN [ok |-> FALSE, val |-> 0]
  ELSE [ok |-> TRUE, val |-> DigitsValue(SubSeq(str, 1, DigitsPrefix(str)))]

\* std::stoi on text that carries no blanks: an optional '-', then digits
stoi(str) ==
  IF str # <<>> /\ Head(str) = Minus
  THEN [ok |-> stoull(Tail(str)).ok, val |-> 0 - stoull(Tail(str)).val]
  ELSE stoull(str)

\* std::filesystem::path::filename
RECURSIVE Filename(_)
Filename(path) ==
  IF Find(path, Slash, 1) = 0 THEN path
  ELSE Filename(SubSeq(path, Find(path, Slash, 1) + 1, Len(path)))

kFileChunkSize == 4096

\* the files on a client's disk: "d/a" of 10000 bytes, "b" of 5 bytes
PathA == <<100, 47, 97>>
PathB == <<98>>
PathMissing == <<122>>
Paths == {PathA, PathB, PathMissing}
FileExists(path) == path \in {PathA, PathB}
file_size(path) == IF path = PathA THEN 10000 ELSE 5
FileRead(path, offset, n) == [i \in 1..n |-> (offset + i) % 251]

Clients == {1, 2}
\* RequestFileTransfer calls in one run
MaxRequests == 2

\* whom a user may name as the recipient: a client, the server, nobody
Recipients == Clients \cup {-1, StrangerId}

OutgoingFileTransfer(file_path, total_size, recipient_id) ==
  [file_path |-> file_path, total_size |-> total_size, sent_size |-> 0,
   recipient_id |-> recipient_id, is_open |-> FALSE]

IncomingFileTransfer(file_name, total_size, sender_id) ==
  [file_name |-> file_name, total_size |-> total_size, received_size |-> 0,
   sender_id |-> sender_id, is_open |-> TRUE]

\* "recipient_id:file_name:file_size"
RequestPayload(recipient_id, file_path) ==
  to_string(recipient_id) \o <<Colon>> \o Filename(file_path) \o <<Colon>>
    \o to_string(file_size(file_path))

OutgoingInactive(c) == FALSE
OutgoingActive(c) == outgoing_transfer_[c] # <<>>

TransferInit ==
  /\ client_id_ = [c \in Clients |-> -1]
  /\ outgoing_transfer_ = [c \in Clients |-> <<>>]
  /\ incoming_transfer_ = [c \in Clients |-> <<>>]
  /\ send_queue_ = [c \in Clients |-> <<>>]
  /\ to_server = [c \in Clients |-> <<>>]
  /\ to_client = [c \in Clients |-> <<IdAssignmentMsg(c)>>]
  /\ incoming_transfers_ = [c \in Clients |-> <<>>]
  /\ x_calls = [c \in Clients |-> 0]
  /\ x_ret = [c \in Clients |-> TRUE]
  /\ x_ok = [c \in Clients |-> <<>>]
  /\ received_files = [c \in Clients |-> <<>>]
  /\ x_conn = [c \in Clients |-> "open"]
  /\ x_wrote = 0
  /\ CodecIdle
  /\ FrameIdle
  /\ ServerIdle
  /\ LifeIdle
  /\ ClientIdle

\* ClientFileTransferHandler::RequestFileTransfer(recipient_id, file_path)
RequestFileTransfer(c, recipient_id, file_path) ==
  /\ x_calls[c] < MaxRequests
  /\ x_calls' = [x_calls EXCEPT ![c] = @ + 1]
  /\ IF client_id_[c] = -1 \/ OutgoingActive(c) \/ ~FileExists(file_path)
     THEN /\ x_ret' = [x_ret EXCEPT ![c] = FALSE]
          /\ UNCHANGED <<send_queue_, outgoing_transfer_, x_ok>>
     ELSE /\ send_queue_' =
               [send_queue_ EXCEPT ![c] =
                  Append(@, MakeMessage(FILE_TRANSFER_REQUEST, client_id_[c], recipient_id,
                                        RequestPayload(recipient_id, file_path)))]
          /\ outgoing_transfer_' =
               [outgoing_transfer_ EXCEPT ![c] =
                  <<OutgoingFileTransfer(file_path, file_size(file_path), recipient_id)>>]
          /\ x_ret' = [x_ret EXCEPT ![c] = TRUE]
          /\ x_ok' = [x_ok EXCEPT ![c] =
                        Append(@, [recipient_id |-> recipient_id,
                                   file_name |-> Filename(file_path),
                                   total_size |-> file_size(file_path)])]
  /\ UNCHANGED <<client_id_, incoming_transfer_, to_server, to_client, incoming_transfers_,
                 received_files, codecVars, frameVars, serverVars, x_conn, x_wrote, lifeVars, clientVars>>

\* Client::SendMessages: the front of send_queue_ goes out on the socket
SendMessages(c) ==
  /\ send_queue_[c] # <<>>
  /\ to_server' = [to_server EXCEPT ![c] = Append(@, Head(send_queue_[c]))]
  /\ send_queue_' = [send_queue_ EXCEPT ![c] = Tail(@)]
  /\ UNCHANGED <<client_id_, outgoing_transfer_, incoming_transfer_, to_client,
                 incoming_transfers_, x_calls, x_ret, x_ok, received_files, codecVars,
                 frameVars, serverVars, x_conn, x_wrote, lifeVars, clientVars>>

\* Server::GetClientHandler with both clients registered
RecipientHandler(recipient_id) ==
  IF recipient_id \in Clients /\ x_conn[recipient_id] # "removed" THEN recipient_id ELSE NullPtr

Sent(to, message) == [to |-> to, msg |-> message]

\* FileTransferHandler::SendFileTransferError: what it sends
SendFileTransferError(recipient_id, error_message) ==
  IF RecipientHandler(recipient_id) # NullPtr
  THEN <<Sent(RecipientHandler(recipient_id), FileTransferErrorMsg(recipient_id, error_message))>>
  ELSE <<>>

\* the place of the second ':' as find(':', first_colon + 1) gives it; with
\* first_colon npos the search starts over at the front
SecondColon(str) ==
  IF Find(str, Colon, 1) = 0 THEN Find(str, Colon, 1)
  ELSE Find(str, Colon, Find(str, Colon, 1) + 1)

HasTransfer(transfers, id) == id \in Clients /\ transfers[id] # <<>>

\* FileTransferHandler::HandleFileTransferRequest, the payload parsed
ServerRequestParsed(c, message, transfers, recipient_id, file_name, size) ==
  IF ~recipient_id.ok \/ ~size.ok
  THEN [sends |-> SendFileTransferError(c, TextErrorProcessing), transfers |-> transfers]
  ELSE IF recipient_id.val = -1
  THEN IF HasTransfer(transfers, c)
       THEN [sends |-> SendFileTransferError(c, TextAnotherTransfer), transfers |-> transfers]
       ELSE [sends |-> <<Sent(c, MakeMessage(FILE_TRANSFER_REQUEST, -1, c, TextReady))>>,
             transfers |-> [transfers EXCEPT ![c] =
                              <<IncomingFileTransfer(file_name, size.val, c)>>]]
  ELSE IF RecipientHandler(recipient_id.val) # NullPtr
  THEN [sends |-> <<Sent(RecipientHandler(recipient_id.val), message)>>,
        transfers |-> transfers]
  ELSE [sends |-> SendFileTransferError(c, TextRecipientNotFound), transfers |-> transfers]

\* FileTransferHandler::HandleFileTransferRequest
ServerHandleFileTransferRequest(c, message, transfers) ==
  IF message.payload = <<>>
  THEN [sends |-> SendFileTransferError(c, TextInvalidRequest), transfers |-> transfers]
  ELSE IF Find(message.payload, Colon, 1) = 0 \/ SecondColon(message.payload) = 0
  THEN [sends |-> SendFileTransferError(c, TextInvalidFormat), transfers |-> transfers]
  ELSE ServerRequestParsed(c, message, transfers,
         stoi(SubSeq(message.payload, 1, Find(message.payload, Colon, 1) - 1)),
         SubSeq(message.payload, Find(message.payload, Colon, 1) + 1,
                SecondColon(message.payload) - 1),
         stoull(SubSeq(message.payload, SecondColon(message.payload) + 1,
                       Len(message.payload))))

\* HandleFileDataChunk without the lookup of the sender's transfer: the
\* bytes are taken for whatever transfers are recorded
ServerHandleFileDataChunkAnyTransfer(c, message, transfers) ==
  IF message.header.recipient_id = -1
  THEN [sends |-> <<>>,
        transfers |-> [d \in DOMAIN transfers |->
                         IF transfers[d] = <<>> THEN <<>>
                         ELSE <<[transfers[d][1] EXCEPT !.received_size =
                                   @ + Len(message.payload)]>>]]
  ELSE IF RecipientHandler(message.header.recipient_id) # NullPtr
  THEN [sends |-> <<Sent(RecipientHandler(message.header.recipient_id), message)>>,
        transfers |-> transfers]
  ELSE [sends |-> SendFileTransferError(c, TextRecipientDisconnected), transfers |-> transfers]

\* FileTransferHandler::HandleFileDataChunk
ServerHandleFileDataChunk(c, message, transfers) ==
  IF message.header.recipient_id = -1
  THEN IF ~HasTransfer(transfers, message.header.sender_id)
       THEN [sends |-> SendFileTransferError(c, TextUnknownTransfer), transfers |-> transfers]
       ELSE [sends |-> <<>>,
             transfers |-> [transfers EXCEPT ![message.header.sender_id][1].received_size =
                              @ + Len(message.payload)]]
  ELSE IF RecipientHandler(message.header.recipient_id) # NullPtr
  THEN [sends |-> <<Sent(RecipientHandler(message.header.recipient_id), message)>>,
        transfers |-> transfers]
  ELSE [sends |-> SendFileTransferError(c, TextRecipientDisconnected), transfers |-> transfers]

\* FileTransferHandler::HandleFileTransferComplete
ServerHandleFileTransferComplete(c, message, transfers) ==
  IF message.header.recipient_id = -1
  THEN IF ~HasTransfer(transfers, message.header.sender_id)
       THEN [sends |-> SendFileTransferError(c, TextUnknownCompletion),
             transfers |-> transfers]
       ELSE [sends |-> <<Sent(c, MakeMessage(FILE_TRANSFER_COMPLETE, -1, c, TextSuccess))>>,
             transfers |-> [transfers EXCEPT ![message.header.sender_id] = <<>>]]
  ELSE IF RecipientHandler(message.header.recipient_id) # NullPtr
  THEN [sends |-> <<Sent(RecipientHandler(message.header.recipient_id), message)>>,
        transfers |-> transfers]
  ELSE [sends |-> <<>>, transfers |-> transfers]

\* FileTransferHandler::HandleFileTransferError
ServerHandleFileTransferError(c, message, transfers) ==
  [sends |-> <<>>,
   transfers |-> IF HasTransfer(transfers, message.header.sender_id)
                 THEN [transfers EXCEPT ![message.header.sender_id] = <<>>]
                 ELSE transfers]

\* FileTransferHandler::HandleMessage
ServerHandleMessage(c, message, transfers) ==
  CASE message.header.type = FILE_TRANSFER_REQUEST ->
         ServerHandleFileTransferRequest(c, message, transfers)
    [] message.header.type = FILE_DATA_CHUNK ->
         ServerHandleFileDataChunk(c, message, transfers)
    [] message.header.type = FILE_TRANSFER_COMPLETE ->
         ServerHandleFileTransferComplete(c, message, transfers)
    [] message.header.type = FILE_TRANSFER_ERROR ->
         ServerHandleFileTransferError(c, message, transfers)
    [] OTHER -> [sends |-> <<>>, transfers |-> transfers]

\* main: AddHandler(BroadcastMessageHandler), AddHandler(FileTransferHandler)
handlers_ == <<"BroadcastMessageHandler", "FileTransferHandler">>

\* Server::BroadcastMessage, seen from the connections: the Message goes to
\* every registered client but the sender, in the order of the registry
BroadcastSends(c, message) ==
  [i \in 1..Len(SelectSeq([d \in 1..2 |-> d],
                          LAMBDA d : d # c /\ RecipientHandler(d) # NullPtr)) |->
     Sent(SelectSeq([d \in 1..2 |-> d],
                    LAMBDA d : d # c /\ RecipientHandler(d) # NullPtr)[i],
          BroadcastMsg(message, c))]

\* IMessageHandler::HandleMessage of one handler of the chain: what it
\* returns, what it sends and what it leaves of incoming_transfers_
HandlerHandleMessage(handler, c, message, transfers) ==
  IF handler = "BroadcastMessageHandler"
  THEN IF message.header.type # BROADCAST_MESSAGE
       THEN [ret |-> FALSE, sends |-> <<>>, transfers |-> transfers]
       ELSE [ret |-> TRUE, sends |-> BroadcastSends(c, message), transfers |-> transfers]
  ELSE [ret |-> message.header.type \in {FILE_TRANSFER_REQUEST, FILE_DATA_CHUNK,
                                         FILE_TRANSFER_COMPLETE, FILE_TRANSFER_ERROR},
        sends |-> ServerHandleMessage(c, message, transfers).sends,
        transfers |-> ServerHandleMessage(c, message, transfers).transfers]

\* a chain that goes on to the later handlers after one has returned true
RECURSIVE OfferAll(_, _, _, _)
OfferAll(hs, c, message, transfers) ==
  IF hs = <<>>
  THEN [ret |-> FALSE, sends |-> <<>>, transfers |-> transfers, invoked |-> <<>>,
        logged |-> TRUE]
  ELSE [ret |-> HandlerHandleMessage(Head(hs), c, message, transfers).ret
                  \/ OfferAll(Tail(hs), c, message, transfers).ret,
        sends |-> HandlerHandleMessage(Head(hs), c, message, transfers).sends
                    \o OfferAll(Tail(hs), c, message, transfers).sends,
        transfers |-> OfferAll(Tail(hs), c, message,
                               HandlerHandleMessage(Head(hs), c, message, transfers).transfers
                              ).transfers,
        invoked |-> <<Head(hs)>> \o OfferAll(Tail(hs), c, message, transfers).invoked,
        logged |-> FALSE]

\* CompositeMessageHandler::HandleMessage: for (handler : handlers_) if
\* (handler->HandleMessage(...)) return true; then the "No handler processed
\* message of type ... from client ..." line and return false
RECURSIVE Offer(_, _, _, _)
Offer(hs, c, message, transfers) ==
  IF hs = <<>>
  THEN [ret |-> FALSE, sends |-> <<>>, transfers |-> transfers, invoked |-> <<>>,
        logged |-> TRUE]
  ELSE IF HandlerHandleMessage(Head(hs), c, message, transfers).ret
  THEN [ret |-> TRUE,
        sends |-> HandlerHandleMessage(Head(hs), c, message, transfers).sends,
        transfers |-> HandlerHandleMessage(Head(hs), c, message, transfers).transfers,
        invoked |-> <<Head(hs)>>,
        logged |-> FALSE]
  ELSE [Offer(Tail(hs), c, message,
              HandlerHandleMessage(Head(hs), c, message, transfers).transfers)
          EXCEPT !.invoked = <<Head(hs)>> \o @,
                 !.sends = HandlerHandleMessage(Head(hs), c, message, transfers).sends \o @]

CompositeHandleMessage(c, message, transfers) == Offer(handlers_, c, message, transfers)

\* the Messages a handler sent that went to client d, in order
RECURSIVE SentTo(_, _)
SentTo(sends, d) ==
  IF sends = <<>> THEN <<>>
  ELSE (IF Head(sends).to = d THEN <<Head(sends).msg>> ELSE <<>>) \o SentTo(Tail(sends), d)

\* ClientHandler::Run of connection c: the next Message of the client is
\* received and handed to the CompositeMessageHandler
ServerReceive(c) ==
  /\ to_server[c] # <<>>
  /\ to_server' = [to_server EXCEPT ![c] = Tail(@)]
  /\ \E r \in {CompositeHandleMessage(c, Head(to_server[c]), incoming_transfers_)} :
       /\ incoming_transfers_' = r.transfers
       /\ to_client' = [d \in Clients |-> to_client[d] \o SentTo(r.sends, d)]
  /\ UNCHANGED <<client_id_, outgoing_transfer_, incoming_transfer_, send_queue_, x_calls,
                 x_ret, x_ok, received_files, codecVars, frameVars, serverVars, x_conn, x_wrote, lifeVars, clientVars>>

\* what handling one Message leaves of a client's state: the two transfer
\* slots, client_id_, the Messages put on send_queue_, the transfers finalized
Handled(out, inc, id, enq, done) ==
  [out |-> out, inc |-> inc, id |-> id, enq |-> enq, done |-> done]

ClientErrorMsg(id, recipient_id, error_message) ==
  MakeMessage(FILE_TRANSFER_ERROR, id, recipient_id, error_message)

ClientAcceptsOverActive(message, out, inc, id) ==
  IF \/ message.header.recipient_id # id
     \/ Find(message.payload, Colon, 1) = 0
     \/ SecondColon(message.payload) = 0
  THEN Handled(out, inc, id, <<>>, <<>>)
  ELSE Handled(out,
               <<IncomingFileTransfer(
                   SubSeq(message.payload, Find(message.payload, Colon, 1) + 1,
                          SecondColon(message.payload) - 1),
                   stoull(SubSeq(message.payload, SecondColon(message.payload) + 1,
                                 Len(message.payload))).val,
                   message.header.sender_id)>>,
               id,
               <<MakeMessage(FILE_TRANSFER_REQUEST, id, message.header.sender_id, TextReady)>>,
               <<>>)

\* ClientFileTransferHandler::HandleFileTransferRequest
ClientHandleFileTransferRequest(message, out, inc, id) ==
  IF message.header.recipient_id # id \/ message.payload = <<>>
  THEN Handled(out, inc, id, <<>>, <<>>)
  ELSE IF Find(message.payload, Colon, 1) = 0 \/ SecondColon(message.payload) = 0
  THEN Handled(out, inc, id, <<>>, <<>>)
  ELSE IF ~stoull(SubSeq(message.payload, SecondColon(message.payload) + 1,
                         Len(message.payload))).ok
  THEN Handled(out, inc, id,
               <<ClientErrorMsg(id, message.header.sender_id, TextErrorProcessing)>>, <<>>)
  ELSE IF inc # <<>>
  THEN Handled(out, inc, id,
               <<ClientErrorMsg(id, message.header.sender_id, TextRecipientBusy)>>, <<>>)
  ELSE Handled(out,
               <<IncomingFileTransfer(
                   SubSeq(message.payload, Find(message.payload, Colon, 1) + 1,
                          SecondColon(message.payload) - 1),
                   stoull(SubSeq(message.payload, SecondColon(message.payload) + 1,
                                 Len(message.payload))).val,
                   message.header.sender_id)>>,
               id,
               <<MakeMessage(FILE_TRANSFER_REQUEST, id, message.header.sender_id, TextReady)>>,
               <<>>)

\* ClientFileTransferHandler::HandleFileDataChunk
ClientHandleFileDataChunk(message, out, inc, id) ==
  IF inc # <<>> /\ inc[1].sender_id = message.header.sender_id
  THEN IF inc[1].is_open
       THEN Handled(out, <<[inc[1] EXCEPT !.received_size = @ + Len(message.payload)]>>, id,
                    <<>>, <<>>)
       ELSE Handled(out, <<>>, id,
                    <<ClientErrorMsg(id, message.header.sender_id, TextStreamNotOpen)>>, <<>>)
  ELSE Handled(out, inc, id, <<>>, <<>>)

\* ClientFileTransferHandler::HandleFileTransferComplete
ClientHandleFileTransferComplete(message, out, inc, id) ==
  IF inc # <<>> /\ inc[1].sender_id = message.header.sender_id
  THEN Handled(out, <<>>, id,
               IF inc[1].received_size # inc[1].total_size
               THEN <<ClientErrorMsg(id, message.header.sender_id, TextSizeMismatch)>>
               ELSE <<>>,
               <<inc[1]>>)
  ELSE Handled(out, inc, id, <<>>, <<>>)

\* ClientFileTransferHandler::HandleFileTransferError
ClientHandleFileTransferError(message, out, inc, id) ==
  Handled(IF out # <<>> /\ out[1].recipient_id = message.header.sender_id THEN <<>> ELSE out,
          IF inc # <<>> /\ inc[1].sender_id = message.header.sender_id THEN <<>> ELSE inc,
          id, <<>>, <<>>)

\* ClientFileTransferHandler::HandleMessage
ClientHandleMessage(message, out, inc, id) ==
  IF /\ message.header.recipient_id # id
     /\ message.header.recipient_id # -1
     /\ message.header.sender_id # -1
  THEN Handled(out, inc, id, <<>>, <<>>)
  ELSE CASE message.header.type = FILE_TRANSFER_REQUEST ->
              ClientHandleFileTransferRequest(message, out, inc, id)
         [] message.header.type = FILE_DATA_CHUNK ->
              ClientHandleFileDataChunk(message, out, inc, id)
         [] message.header.type = FILE_TRANSFER_COMPLETE ->
              ClientHandleFileTransferComplete(message, out, inc, id)
         [] message.header.type = FILE_TRANSFER_ERROR ->
              ClientHandleFileTransferError(message, out, inc, id)
         [] OTHER -> Handled(out, inc, id, <<>>, <<>>)

\* Client::ProcessReceivedMessage
ProcessReceivedMessage(message, out, inc, id) ==
  IF message.header.type \in {FILE_TRANSFER_REQUEST, FILE_DATA_CHUNK, FILE_TRANSFER_COMPLETE,
                              FILE_TRANSFER_ERROR}
  THEN ClientHandleMessage(message, out, inc, id)
  ELSE IF /\ message.header.type = CLIENT_ID_ASSIGNMENT
          /\ message.payload # <<>>
          /\ stoi(message.payload).ok
  THEN Handled(out, inc, stoi(message.payload).val, <<>>, <<>>)
  ELSE Handled(out, inc, id, <<>>, <<>>)

\* Client::ProcessReceivedMessage returns through one of the two returns that
\* write nothing to std::cout or std::cerr: "Message is not for this client,
\* ignore" in HandleMessage and "This request is not for this client, ignore
\* it" in HandleFileTransferRequest
ClientSilent(message, id) ==
  /\ message.header.type \in {FILE_TRANSFER_REQUEST, FILE_DATA_CHUNK, FILE_TRANSFER_COMPLETE,
                              FILE_TRANSFER_ERROR}
  /\ \/ /\ message.header.recipient_id # id
        /\ message.header.recipient_id # -1
        /\ message.header.sender_id # -1
     \/ /\ message.header.type = FILE_TRANSFER_REQUEST
        /\ message.header.recipient_id # id

\* Client::ReceiveMessages: the next Message from the server is processed
ReceiveMessages(c) ==
  /\ to_client[c] # <<>>
  /\ to_client' = [to_client EXCEPT ![c] = Tail(@)]
  /\ \E r \in {ProcessReceivedMessage(Head(to_client[c]), outgoing_transfer_[c],
                                      incoming_transfer_[c], client_id_[c])} :
       /\ outgoing_transfer_' = [outgoing_transfer_ EXCEPT ![c] = r.out]
       /\ incoming_transfer_' = [incoming_transfer_ EXCEPT ![c] = r.inc]
       /\ client_id_' = [client_id_ EXCEPT ![c] = r.id]
       /\ send_queue_' = [send_queue_ EXCEPT ![c] = @ \o r.enq]
       /\ received_files' = [received_files EXCEPT ![c] = @ \o r.done]
  /\ UNCHANGED <<to_server, incoming_transfers_, x_calls, x_ret, x_ok, codecVars, frameVars,
                 serverVars, x_conn, x_wrote, lifeVars, clientVars>>

\* "Unexpected end of file during transfer."
TextUnexpectedEof ==
  << 85, 110, 101, 120, 112, 101, 99, 116, 101, 100, 32, 101, 110, 100, 32, 111,
     102, 32, 102, 105, 108, 101, 32, 100, 117, 114, 105, 110, 103, 32, 116, 114,
     97, 110, 115, 102, 101, 114, 46 >>
\* "File stream failed during transfer."
TextStreamFailed ==
  << 70, 105, 108, 101, 32, 115, 116, 114, 101, 97, 109, 32, 102, 97, 105, 108,
     101, 100, 32, 100, 117, 114, 105, 110, 103, 32, 116, 114, 97, 110, 115, 102,
     101, 114, 46 >>

\* file_stream.gcount() after file_stream.read(buf, n): all n bytes, a short
\* count when the file on disk is shorter than total_size, or nothing
ReadResults(n) == {0, n} \cup (IF n > 2 THEN {n - 2} ELSE {})

\* a sender that always fills the whole buffer, whatever is left of the file
SendNextFileChunkWholeBuffer(c) ==
  /\ outgoing_transfer_[c] # <<>>
  /\ outgoing_transfer_[c][1].is_open
  /\ outgoing_transfer_[c][1].sent_size < outgoing_transfer_[c][1].total_size
  /\ send_queue_' =
       [send_queue_ EXCEPT ![c] =
          Append(@, MakeMessage(FILE_DATA_CHUNK, client_id_[c],
                                outgoing_transfer_[c][1].recipient_id,
                                FileRead(outgoing_transfer_[c][1].file_path,
                                         outgoing_transfer_[c][1].sent_size,
                                         kFileChunkSize)))]
  /\ outgoing_transfer_' =
       [outgoing_transfer_ EXCEPT ![c] = <<[@[1] EXCEPT !.sent_size = @ + kFileChunkSize]>>]
  /\ UNCHANGED <<client_id_, incoming_transfer_, to_server, to_client, incoming_transfers_,
                 x_calls, x_ret, x_ok, received_files, codecVars, frameVars, serverVars, x_conn, x_wrote, lifeVars, clientVars>>

\* a sender that reports a failed read but keeps the transfer recorded
SendNextFileChunkKeepsState(c) ==
  /\ outgoing_transfer_[c] # <<>>
  /\ outgoing_transfer_[c][1].is_open
  /\ outgoing_transfer_[c][1].sent_size < outgoing_transfer_[c][1].total_size
  /\ send_queue_' =
       [send_queue_ EXCEPT ![c] =
          Append(@, ClientErrorMsg(client_id_[c], outgoing_transfer_[c][1].recipient_id,
                                   TextUnexpectedEof))]
  /\ UNCHANGED <<outgoing_transfer_, client_id_, incoming_transfer_, to_server, to_client, incoming_transfers_,
                 x_calls, x_ret, x_ok, received_files, codecVars, frameVars, serverVars, x_conn, x_wrote, lifeVars, clientVars>>

\* ClientFileTransferHandler::SendNextFileChunkToQueue, one call under
\* outgoing_transfer_mutex_.  Nothing in the program calls it and nothing
\* opens outgoing_transfer_->file_stream, so it is no step of TransferNext.
SendNextFileChunkToQueue(c) ==
  /\ outgoing_transfer_[c] # <<>>
  /\ outgoing_transfer_[c][1].is_open
  /\ outgoing_transfer_[c][1].sent_size < outgoing_transfer_[c][1].total_size
  /\ \E bytes_read \in ReadResults(Min(kFileChunkSize,
                                       outgoing_transfer_[c][1].total_size
                                         - outgoing_transfer_[c][1].sent_size)) :
       IF bytes_read > 0
       THEN /\ send_queue_' =
                 [send_queue_ EXCEPT ![c] =
                    Append(@, MakeMessage(FILE_DATA_CHUNK, client_id_[c],
                                          outgoing_transfer_[c][1].recipient_id,
                                          FileRead(outgoing_transfer_[c][1].file_path,
                                                   outgoing_transfer_[c][1].sent_size,
                                                   bytes_read)))
                    \o (IF outgoing_transfer_[c][1].sent_size + bytes_read
                             = outgoing_transfer_[c][1].total_size
                        THEN <<MakeMessage(FILE_TRANSFER_COMPLETE, client_id_[c],
                                           outgoing_transfer_[c][1].recipient_id, <<>>)>>
                        ELSE <<>>)]
            /\ outgoing_transfer_' =
                 [outgoing_transfer_ EXCEPT ![c] =
                    IF @[1].sent_size + bytes_read = @[1].total_size THEN <<>>
                    ELSE <<[@[1] EXCEPT !.sent_size = @ + bytes_read]>>]
       ELSE \E error_payload \in {TextUnexpectedEof, TextStreamFailed} :
              /\ send_queue_' =
                   [send_queue_ EXCEPT ![c] =
                      Append(@, ClientErrorMsg(client_id_[c],
                                               outgoing_transfer_[c][1].recipient_id,
                                               error_payload))]
              /\ outgoing_transfer_' = [outgoing_transfer_ EXCEPT ![c] = <<>>]
  /\ UNCHANGED <<client_id_, incoming_transfer_, to_server, to_client, incoming_transfers_,
                 x_calls, x_ret, x_ok, received_files, codecVars, frameVars, serverVars, x_conn, x_wrote, lifeVars, clientVars>>

TransferNext ==
  \E c \in Clients :
    \/ \E recipient_id \in Recipients, file_path \in Paths :
         RequestFileTransfer(c, recipient_id, file_path)
    \/ SendMessages(c)
    \/ ServerReceive(c)
    \/ ReceiveMessages(c)

SpecTransfer == TransferInit /\ [][TransferNext]_vars

\* nothing is queued and nothing is on its way on any connection
Quiescent ==
  \A c \in Clients : send_queue_[c] = <<>> /\ to_server[c] = <<>> /\ to_client[c] = <<>>

\* C7: after client a's one RequestFileTransfer(b, file) has succeeded, with
\* b registered and idle, the exchange runs to its end: once every queue and
\* connection has drained, b has finalized a transfer from a whose received
\* size is the declared total size, and a's outgoing_transfer_ and b's
\* incoming_transfer_ are discarded.
EndToEndFileTransfer ==
  \A a \in Clients : \A b \in Clients \ {a} :
    ( /\ x_calls[a] = 1 /\ x_calls[b] = 0
      /\ Len(x_ok[a]) = 1
      /\ x_ok[a][1].recipient_id = b
      /\ Quiescent )
    => /\ outgoing_transfer_[a] = <<>>
       /\ incoming_transfer_[b] = <<>>
       /\ Len(received_files[b]) = 1
       /\ received_files[b][1].sender_id = a
       /\ received_files[b][1].received_size = x_ok[a][1].total_size

\* C8: a client with a recorded outgoing transfer that takes the READY
\* acknowledgment of its transfer target off its connection opens the file
\* and has a TRANSFER_CHUNK on its send queue afterwards, and the
\* acknowledgment starts no incoming transfer.
ChunkingBeginsOnReadyStep ==
  \A c \in Clients :
    ( /\ to_client[c] # <<>>
      /\ to_client'[c] = Tail(to_client[c])
      /\ Head(to_client[c]).header.type = FILE_TRANSFER_REQUEST
      /\ Head(to_client[c]).payload = TextReady
      /\ Head(to_client[c]).header.recipient_id = client_id_[c]
      /\ outgoing_transfer_[c] # <<>>
      /\ Head(to_client[c]).header.sender_id = outgoing_transfer_[c][1].recipient_id )
    => /\ incoming_transfer_'[c] = incoming_transfer_[c]
       /\ outgoing_transfer_'[c] # <<>> => outgoing_transfer_'[c][1].is_open
       /\ \E i \in 1..Len(send_queue_'[c]) :
            send_queue_'[c][i].header.type = FILE_DATA_CHUNK
ChunkingBeginsOnReady == [][ChunkingBeginsOnReadyStep]_vars

\* C9: a RequestFileTransfer call made while outgoing_transfer_ is set
\* returns false, puts nothing on the send queue and leaves
\* outgoing_transfer_ (file path, total size, sent size, recipient id) as it was.
SecondRequestRefusedStep ==
  \A c \in Clients :
    (x_calls'[c] = x_calls[c] + 1 /\ outgoing_transfer_[c] # <<>>)
    => /\ x_ret'[c] = FALSE
       /\ send_queue_'[c] = send_queue_[c]
       /\ outgoing_transfer_'[c] = outgoing_transfer_[c]
       /\ x_ok'[c] = x_ok[c]
SecondRequestRefused == [][SecondRequestRefusedStep]_vars

\* a client whose first call succeeded has made a second call, which
\* returned false, with the first transfer still recorded
SecondRequestRefusedWitness ==
  \E c \in Clients :
    /\ x_calls[c] = 2
    /\ Len(x_ok[c]) = 1
    /\ x_ret[c] = FALSE
    /\ outgoing_transfer_[c] # <<>>
    /\ outgoing_transfer_[c][1].sent_size = 0

-----------------------------------------------------------------------------
(* The relay rule of the server *)

TransferTypes ==
  {FILE_TRANSFER_REQUEST, FILE_DATA_CHUNK, FILE_TRANSFER_COMPLETE, FILE_TRANSFER_ERROR}

\* C11: the server consumes no TRANSFER_REQUEST, TRANSFER_CHUNK,
\* TRANSFER_COMPLETE or TRANSFER_ERROR whose header recipient_id is not -1
\* and names a registered worker: the step that handles it sends it, as it
\* is, on that worker's connection, sends nothing else and leaves the
\* server's own transfers alone.
RelayRuleStep ==
  \A c \in Clients :
    ( /\ to_server[c] # <<>>
      /\ to_server'[c] = Tail(to_server[c])
      /\ Head(to_server[c]).header.type \in TransferTypes
      /\ Head(to_server[c]).header.recipient_id # -1
      /\ RecipientHandler(Head(to_server[c]).header.recipient_id) # NullPtr )
    => /\ incoming_transfers_' = incoming_transfers_
       /\ \A d \in Clients :
            to_client'[d] =
              IF d = RecipientHandler(Head(to_server[c]).header.recipient_id)
              THEN Append(to_client[d], Head(to_server[c]))
              ELSE to_client[d]
RelayRule == [][RelayRuleStep]_vars

-----------------------------------------------------------------------------
(* The id message of a new connection *)

\* C17: a worker that is in clients_, or whose receive loop has been
\* started, has already been sent the one ID_ASSIGNMENT message of its
\* connection: sender_id -1, recipient_id the assigned id, payload the id in
\* decimal.
IdAssignmentFirst ==
  \A w \in Workers :
    (w \in SeqToSet(clients_) \/ h_pc[w] # "none" \/ worker[w].running_) =>
      /\ Len(worker[w].greeting) = 1
      /\ worker[w].greeting[1].header.type = CLIENT_ID_ASSIGNMENT
      /\ worker[w].greeting[1].header.sender_id = -1
      /\ worker[w].greeting[1].header.recipient_id = worker[w].id
      /\ worker[w].greeting[1].payload = Digits(worker[w].id)
      /\ stoi(worker[w].greeting[1].payload) = [ok |-> TRUE, val |-> worker[w].id]

\* the connection that was given id 3 has its id message, while the accept
\* loop that took it has not yet put it into clients_
IdAssignmentFirstWitness ==
  \E t \in AcceptLoops :
    /\ a_pc[t] = "register"
    /\ worker[a_conn[t]].id = 3
    /\ worker[a_conn[t]].greeting = <<IdAssignmentMsg(3)>>
    /\ a_conn[t] \notin SeqToSet(clients_)
    /\ h_pc[a_conn[t]] = "none"

-----------------------------------------------------------------------------
(* Transfer slots *)

\* a payload of the form "recipient:file:size" with a number at either end
IsRequestPayload(payload) ==
  /\ Find(payload, Colon, 1) # 0
  /\ SecondColon(payload) # 0
  /\ stoi(SubSeq(payload, 1, Find(payload, Colon, 1) - 1)).ok
  /\ stoull(SubSeq(payload, SecondColon(payload) + 1, Len(payload))).ok

OneSlotEach ==
  \A c \in Clients :
    /\ Len(outgoing_transfer_[c]) <= 1
    /\ Len(incoming_transfer_[c]) <= 1
    /\ Len(incoming_transfers_[c]) <= 1

RejectedWhileActiveStep ==
  \A c \in Clients :
    /\ ( /\ to_client[c] # <<>>
         /\ to_client'[c] = Tail(to_client[c])
         /\ Head(to_client[c]).header.type = FILE_TRANSFER_REQUEST
         /\ Head(to_client[c]).header.recipient_id = client_id_[c]
         /\ IsRequestPayload(Head(to_client[c]).payload)
         /\ incoming_transfer_[c] # <<>> )
       => /\ incoming_transfer_'[c] = incoming_transfer_[c]
          /\ send_queue_'[c] =
               Append(send_queue_[c],
                      MakeMessage(FILE_TRANSFER_ERROR, client_id_[c],
                                  Head(to_client[c]).header.sender_id, TextRecipientBusy))
    /\ ( /\ to_server[c] # <<>>
         /\ to_server'[c] = Tail(to_server[c])
         /\ Head(to_server[c]).header.type = FILE_TRANSFER_REQUEST
         /\ IsRequestPayload(Head(to_server[c]).payload)
         /\ stoi(SubSeq(Head(to_server[c]).payload, 1,
                        Find(Head(to_server[c]).payload, Colon, 1) - 1)).val = -1
         /\ incoming_transfers_[c] # <<>> )
       => /\ incoming_transfers_' = incoming_transfers_
          /\ to_client'[c] =
               Append(to_client[c],
                      MakeMessage(FILE_TRANSFER_ERROR, -1, c, TextAnotherTransfer))

\* C19: a client holds at most one incoming and one outgoing transfer and
\* the server at most one incoming transfer per client; a transfer request
\* that arrives at a client, or at the server for the server itself, while
\* an incoming transfer is active there is answered with a TRANSFER_ERROR,
\* and the active transfer is left as it was.
TransferSlots == []OneSlotEach /\ [][RejectedWhileActiveStep]_vars

\* a client rejected a request while the transfer it had accepted before
\* was still active
TransferSlotsWitness ==
  \E c \in Clients :
    /\ incoming_transfer_[c] # <<>>
    /\ send_queue_[c] # <<>>
    /\ send_queue_[c][Len(send_queue_[c])].header.type = FILE_TRANSFER_ERROR
    /\ send_queue_[c][Len(send_queue_[c])].payload = TextRecipientBusy

-----------------------------------------------------------------------------
(* The end of a connection while a transfer to the server is recorded *)

\* Client::Disconnect: the threads are stopped and the socket is closed; what
\* was written before stays readable on the server's side
Disconnect(c) ==
  /\ x_conn[c] = "open"
  /\ x_conn' = [x_conn EXCEPT ![c] = "closed"]
  /\ UNCHANGED <<client_id_, outgoing_transfer_, incoming_transfer_, send_queue_, to_server,
                 to_client, incoming_transfers_, x_calls, x_ret, x_ok, received_files,
                 codecVars, frameVars, serverVars, x_wrote, lifeVars, clientVars>>

\* the server's side of it: Run reads 0 and signals, CleanupClients calls
\* RemoveClient, which stops the handler and erases it from clients_.
\* Neither of them, nor ~ClientHandler, calls into the FileTransferHandler.
\* With a handler registered behind c's, remove_if destroys c's handler and
\* Stop() is called through a null entry (Server.cpp:229-238): the call
\* comes back and the entry is gone all the same, or the server dies.
ConnectionTeardown(c) ==
  /\ x_conn[c] = "closed"
  /\ to_server[c] = <<>>
  /\ \E outcome \in IF \E d \in Clients : d > c /\ x_conn[d] # "removed"
                     THEN {"removed", "crashed"} ELSE {"removed"} :
       x_conn' = IF outcome = "crashed" THEN [d \in Clients |-> "crashed"]
                 ELSE [x_conn EXCEPT ![c] = "removed"]
  /\ to_client' = [to_client EXCEPT ![c] = <<>>]
  /\ UNCHANGED <<client_id_, outgoing_transfer_, incoming_transfer_, send_queue_, to_server,
                 incoming_transfers_, x_calls, x_ret, x_ok, received_files,
                 codecVars, frameVars, serverVars, x_wrote, lifeVars, clientVars>>

TeardownNext ==
  \E c \in Clients :
    \/ /\ x_conn[c] = "open"
       /\ \E recipient_id \in Recipients, file_path \in Paths :
            RequestFileTransfer(c, recipient_id, file_path)
    \/ x_conn[c] = "open" /\ SendMessages(c)
    \/ x_conn[c] = "open" /\ ReceiveMessages(c)
    \/ x_conn[c] \in {"open", "closed"} /\ ServerReceive(c)
    \/ Disconnect(c)
    \/ ConnectionTeardown(c)

SpecTeardown == TransferInit /\ [][TeardownNext]_vars

\* C20: once a client's handler has been removed from the registry, the
\* server holds no transfer state keyed by that client's id.
TransferStateReleased ==
  \A c \in Clients : x_conn[c] = "removed" => incoming_transfers_[c] = <<>>

-----------------------------------------------------------------------------
(* The life of a ClientHandler: Run, Stop, the cleanup path, Server::Stop *)

\* connections that are registered and running when the account begins
NumHandlers == 2
\* Messages a peer sends on its connection
MaxData == 1

Handlers == 1..NumHandlers
MainThread == "main"
Stoppers == {CleanupThread, MainThread}

Handler(w) == handlers[w]

\* the server process has not been killed
ProcessUp == ~registry.crashed

\* std::thread::join returns once the thread function has returned
ThreadExited(w) == Handler(w).pc = "done"

\* the state AcceptConnections leaves behind for each connection: the
\* handler is in clients_, its thread is blocked in Receive
LifecycleInit ==
  /\ handlers = [w \in Handlers |->
                   [running_ |-> TRUE, socket_fd_ |-> TRUE, pc |-> "recv", closes |-> 0,
                    joinable |-> TRUE, life |-> "alive", unread |-> 0, sent |-> 0,
                    peer |-> TRUE]]
  /\ registry = [clients_ |-> Handlers, clients_mutex_ |-> {}, finished_client_ids_ |-> <<>>,
                 running_ |-> TRUE, cleanup_running_ |-> TRUE, crashed |-> FALSE]
  /\ stoppers = [t \in Stoppers |->
                   [pc |-> IF t = CleanupThread THEN "wait" ELSE "idle", w |-> 0,
                    blocked |-> FALSE, todo |-> {}]]
  /\ CodecIdle
  /\ FrameIdle
  /\ ServerIdle
  /\ XferIdle
  /\ ClientIdle

LifeRest == <<codecVars, frameVars, serverVars, xferVars, clientVars>>

\* the client writes a Message to its socket
PeerSend(w) ==
  /\ Handler(w).peer
  /\ Handler(w).sent < MaxData
  /\ handlers' = [handlers EXCEPT ![w].sent = @ + 1, ![w].unread = @ + 1]
  /\ UNCHANGED <<registry, stoppers, LifeRest>>

\* the client closes its end
PeerClose(w) ==
  /\ Handler(w).peer
  /\ handlers' = [handlers EXCEPT ![w].peer = FALSE]
  /\ UNCHANGED <<registry, stoppers, LifeRest>>

\* Run: the blocked Receive returns a Message, which the message handler
\* takes to Server::BroadcastMessage (ClientHandler.cpp:325-364)
RunReceive(w) ==
  /\ ProcessUp
  /\ Handler(w).pc = "recv"
  /\ Handler(w).socket_fd_
  /\ Handler(w).unread > 0
  /\ handlers' = [handlers EXCEPT ![w].unread = @ - 1, ![w].pc = "handle"]
  /\ UNCHANGED <<registry, stoppers, LifeRest>>

\* Run: Receive returns 0 (the peer closed) or an error (the socket was
\* closed under it): running_ is cleared and the server is signalled
\* (ClientHandler.cpp:365-395, Server.cpp:270-276)
RunReceiveEnd(w) ==
  /\ ProcessUp
  /\ Handler(w).pc = "recv"
  /\ \/ ~Handler(w).socket_fd_
     \/ Handler(w).unread = 0 /\ ~Handler(w).peer
  /\ handlers' = [handlers EXCEPT ![w].running_ = FALSE, ![w].pc = "exit"]
  /\ registry' = [registry EXCEPT !.finished_client_ids_ = Append(@, w)]
  /\ UNCHANGED <<stoppers, LifeRest>>

\* Server::BroadcastMessage takes clients_mutex_ (Server.cpp:199)
RunHandleLock(w) ==
  /\ ProcessUp
  /\ Handler(w).pc = "handle"
  /\ registry.clients_mutex_ = {}
  /\ registry' = [registry EXCEPT !.clients_mutex_ = {HandlerThread(w)}]
  /\ handlers' = [handlers EXCEPT ![w].pc = "bcast"]
  /\ UNCHANGED <<stoppers, LifeRest>>

\* BroadcastMessage returns and the loop condition is evaluated
\* (Server.cpp:213, ClientHandler.cpp:325)
RunHandleUnlock(w) ==
  /\ ProcessUp
  /\ Handler(w).pc = "bcast"
  /\ registry' = [registry EXCEPT !.clients_mutex_ = {}]
  /\ handlers' = [handlers EXCEPT ![w].pc =
                    IF Handler(w).running_ /\ Handler(w).socket_fd_ THEN "recv" ELSE "exit"]
  /\ UNCHANGED <<stoppers, LifeRest>>

\* after the loop: if (client_socket_->IsValid()) (ClientHandler.cpp:398)
RunExitCheck(w) ==
  /\ ProcessUp
  /\ Handler(w).pc = "exit"
  /\ handlers' = [handlers EXCEPT ![w].pc = IF Handler(w).socket_fd_ THEN "close" ELSE "done"]
  /\ UNCHANGED <<registry, stoppers, LifeRest>>

\* client_socket_->Close(): close(socket_fd_); socket_fd_ = -1
\* (ClientHandler.cpp:399, PosixSocket.cpp:206-207)
RunExitClose(w) ==
  /\ ProcessUp
  /\ Handler(w).pc = "close"
  /\ handlers' = [handlers EXCEPT ![w].closes = @ + 1, ![w].socket_fd_ = FALSE,
                                  ![w].pc = "done"]
  /\ UNCHANGED <<registry, stoppers, LifeRest>>

RunStep(w) ==
  \/ RunReceive(w) \/ RunReceiveEnd(w) \/ RunHandleLock(w) \/ RunHandleUnlock(w)
  \/ RunExitCheck(w) \/ RunExitClose(w)

\* ClientHandler::Stop: running_.store(false) (ClientHandler.cpp:255)
StopFlag(t) ==
  /\ ProcessUp
  /\ stoppers[t].pc = "stop"
  /\ handlers' = [handlers EXCEPT ![stoppers[t].w].running_ = FALSE]
  /\ stoppers' = [stoppers EXCEPT ![t].pc = "stop_check"]
  /\ UNCHANGED <<registry, LifeRest>>

\* if (client_socket_->IsValid()) (ClientHandler.cpp:258)
StopCheck(t) ==
  /\ ProcessUp
  /\ stoppers[t].pc = "stop_check"
  /\ stoppers' = [stoppers EXCEPT ![t].pc =
                    IF Handler(stoppers[t].w).socket_fd_ THEN "stop_close" ELSE "stop_join"]
  /\ UNCHANGED <<handlers, registry, LifeRest>>

\* client_socket_->Close() (ClientHandler.cpp:259, PosixSocket.cpp:206-207)
StopClose(t) ==
  /\ ProcessUp
  /\ stoppers[t].pc = "stop_close"
  /\ handlers' = [handlers EXCEPT ![stoppers[t].w].closes = @ + 1,
                                  ![stoppers[t].w].socket_fd_ = FALSE]
  /\ stoppers' = [stoppers EXCEPT ![t].pc = "stop_join"]
  /\ UNCHANGED <<registry, LifeRest>>

\* if (handler_thread_.joinable()) handler_thread_.join(), and Stop returns
\* (ClientHandler.cpp:265-267)
StopJoin(t) ==
  /\ ProcessUp
  /\ stoppers[t].pc = "stop_join"
  /\ Handler(stoppers[t].w).joinable => ThreadExited(stoppers[t].w)
  /\ handlers' = [handlers EXCEPT ![stoppers[t].w].joinable = FALSE]
  /\ stoppers' = [stoppers EXCEPT ![t].pc = "stop_ret"]
  /\ UNCHANGED <<registry, LifeRest>>

StopStep(t) == StopFlag(t) \/ StopCheck(t) \/ StopClose(t) \/ StopJoin(t)

\* CleanupClients pops an id and calls RemoveClient, which takes
\* clients_mutex_ and runs std::remove_if over clients_ (Server.cpp:168-186,
\* 223-231).  The handler in the last place is left where it is and Stop is
\* called on it.  A handler before the last place is destroyed by the move
\* assignment of the entry behind it (~ClientHandler detaches its thread,
\* ClientHandler.cpp:229-230, and ~PosixSocket closes the socket,
\* PosixSocket.cpp:24-26) and the call of Stop goes through the null entry
\* the moves leave in the last place.
RemoveClientStop ==
  /\ ProcessUp
  /\ stoppers[CleanupThread].pc = "wait"
  /\ registry.cleanup_running_
  /\ registry.finished_client_ids_ # <<>>
  /\ registry.clients_mutex_ = {}
  /\ \E w \in {Head(registry.finished_client_ids_)} :
       IF w \notin registry.clients_
       THEN /\ registry' = [registry EXCEPT !.finished_client_ids_ = Tail(@)]
            /\ UNCHANGED <<handlers, stoppers>>
       ELSE IF \A v \in registry.clients_ : v <= w
       THEN /\ registry' = [registry EXCEPT !.finished_client_ids_ = Tail(@),
                                            !.clients_mutex_ = {CleanupThread}]
            /\ stoppers' = [stoppers EXCEPT ![CleanupThread].pc = "stop",
                                            ![CleanupThread].w = w,
                                            ![CleanupThread].blocked = Handler(w).pc = "recv"]
            /\ UNCHANGED handlers
       ELSE /\ registry' = [registry EXCEPT !.finished_client_ids_ = Tail(@),
                                            !.clients_mutex_ = {CleanupThread},
                                            !.clients_ = @ \ {w}]
            /\ handlers' = [handlers EXCEPT
                              ![w].life = "destroyed", ![w].joinable = FALSE,
                              ![w].closes = IF Handler(w).socket_fd_ THEN @ + 1 ELSE @,
                              ![w].socket_fd_ = FALSE]
            /\ stoppers' = [stoppers EXCEPT ![CleanupThread].pc = "null_stop",
                                            ![CleanupThread].w = w]
  /\ UNCHANGED LifeRest

\* RemoveClient after Stop has returned: the entry is erased, which
\* destroys the ClientHandler, and the lock_guard is released
\* (Server.cpp:241-249)
RemoveClientDestroy ==
  /\ ProcessUp
  /\ stoppers[CleanupThread].pc = "stop_ret"
  /\ handlers' = [handlers EXCEPT ![stoppers[CleanupThread].w].life = "destroyed"]
  /\ registry' = [registry EXCEPT !.clients_ = @ \ {stoppers[CleanupThread].w},
                                  !.clients_mutex_ = {}]
  /\ stoppers' = [stoppers EXCEPT ![CleanupThread].pc = "wait", ![CleanupThread].w = 0,
                                  ![CleanupThread].blocked = FALSE]
  /\ UNCHANGED LifeRest

\* Stop() called through the null entry (Server.cpp:238) comes back: the
\* null entry is erased and the lock_guard released
RemoveClientNullReturn ==
  /\ ProcessUp
  /\ stoppers[CleanupThread].pc = "null_stop"
  /\ registry' = [registry EXCEPT !.clients_mutex_ = {}]
  /\ stoppers' = [stoppers EXCEPT ![CleanupThread].pc = "wait", ![CleanupThread].w = 0]
  /\ UNCHANGED <<handlers, LifeRest>>

\* the other outcome of undefined behaviour, a fault that kills the process:
\* of Stop() through the null entry, or of the detached thread of a
\* destroyed ClientHandler going on in Run with the object's members
\* (ClientHandler.cpp:325, 398-403)
FaultKills ==
  /\ ProcessUp
  /\ \/ stoppers[CleanupThread].pc = "null_stop"
     \/ \E w \in Handlers : Handler(w).life = "destroyed" /\ Handler(w).pc # "done"
  /\ registry' = [registry EXCEPT !.crashed = TRUE]
  /\ UNCHANGED <<handlers, stoppers, LifeRest>>

\* CleanupClients leaves its loop once cleanup_running_ is false
\* (Server.cpp:168-176)
CleanupExit ==
  /\ ProcessUp
  /\ stoppers[CleanupThread].pc = "wait"
  /\ ~registry.cleanup_running_
  /\ stoppers' = [stoppers EXCEPT ![CleanupThread].pc = "exited"]
  /\ UNCHANGED <<handlers, registry, LifeRest>>

\* Server::Stop: the flags are cleared and the cleanup thread is notified
\* (Server.cpp:69-74)
ServerStopBegin ==
  /\ ProcessUp
  /\ stoppers[MainThread].pc = "idle"
  /\ registry.running_
  /\ registry' = [registry EXCEPT !.running_ = FALSE, !.cleanup_running_ = FALSE]
  /\ stoppers' = [stoppers EXCEPT ![MainThread].pc = "join_cleanup"]
  /\ UNCHANGED <<handlers, LifeRest>>

\* cleanup_thread_.join() returns and clients_mutex_ is taken (Server.cpp:87-94)
ServerStopLock ==
  /\ ProcessUp
  /\ stoppers[MainThread].pc = "join_cleanup"
  /\ stoppers[CleanupThread].pc = "exited"
  /\ registry.clients_mutex_ = {}
  /\ registry' = [registry EXCEPT !.clients_mutex_ = {MainThread}]
  /\ stoppers' = [stoppers EXCEPT ![MainThread].pc = "next",
                                  ![MainThread].todo = registry.clients_]
  /\ UNCHANGED <<handlers, LifeRest>>

\* for (client : clients_) client->Stop(): the call on the next handler
\* (Server.cpp:95-96)
ServerStopNext ==
  /\ ProcessUp
  /\ stoppers[MainThread].pc \in {"next", "stop_ret"}
  /\ stoppers[MainThread].todo # {}
  /\ \E w \in stoppers[MainThread].todo :
       /\ \A v \in stoppers[MainThread].todo : w <= v
       /\ stoppers' = [stoppers EXCEPT ![MainThread].pc = "stop", ![MainThread].w = w,
                                       ![MainThread].todo = @ \ {w},
                                       ![MainThread].blocked = Handler(w).pc = "recv"]
  /\ UNCHANGED <<handlers, registry, LifeRest>>

\* clients_.clear() destroys the handlers, and the lock_guard is released
\* (Server.cpp:98-100)
ServerStopClear ==
  /\ ProcessUp
  /\ stoppers[MainThread].pc \in {"next", "stop_ret"}
  /\ stoppers[MainThread].todo = {}
  /\ handlers' = [w \in Handlers |->
                    IF w \in registry.clients_ THEN [Handler(w) EXCEPT !.life = "destroyed"]
                    ELSE Handler(w)]
  /\ registry' = [registry EXCEPT !.clients_ = {}, !.clients_mutex_ = {}]
  /\ stoppers' = [stoppers EXCEPT ![MainThread].pc = "stopped", ![MainThread].w = 0,
                                  ![MainThread].blocked = FALSE]
  /\ UNCHANGED LifeRest

LifecycleNext ==
  \/ \E w \in Handlers :
       \/ PeerSend(w) \/ PeerClose(w)
       \/ RunReceive(w) \/ RunReceiveEnd(w) \/ RunHandleLock(w) \/ RunHandleUnlock(w)
       \/ RunExitCheck(w) \/ RunExitClose(w)
  \/ \E t \in Stoppers : StopFlag(t) \/ StopCheck(t) \/ StopClose(t) \/ StopJoin(t)
  \/ RemoveClientStop \/ RemoveClientDestroy \/ RemoveClientNullReturn \/ FaultKills
  \/ CleanupExit
  \/ ServerStopBegin \/ ServerStopLock \/ ServerStopNext \/ ServerStopClear

SpecLifecycle == LifecycleInit /\ [][LifecycleNext]_vars

\* t is inside a call of ClientHandler::Stop that has not returned
InStop(t) == stoppers[t].pc \in {"stop", "stop_check", "stop_close", "stop_join"}

\* C12: a Stop that was called while the handler's loop was blocked in
\* Receive goes through: as long as the call has not returned, the caller or
\* the handler's thread has a step to take, unless the thread has finished
\* and only the join is left to return.
StopUnblocksReceive ==
  \A t \in Stoppers :
    (ProcessUp /\ InStop(t) /\ stoppers[t].blocked) =>
      \/ ENABLED StopStep(t)
      \/ ENABLED RunStep(stoppers[t].w)

\* C14: however Stop and the exit of Run interleave, the socket of a
\* handler is closed by one of them only: close() is called on it at most
\* once.
StopClosesOnce ==
  \A w \in Handlers : Handler(w).life = "alive" => Handler(w).closes <= 1

\* C15: a thread that is inside ClientHandler::Stop, where it waits for the
\* handler's thread in join, does not hold clients_mutex_.
NoLockAcrossJoin ==
  \A t \in Stoppers : InStop(t) => t \notin registry.clients_mutex_

DestroyedAfterJoin ==
  \A w \in Handlers :
    Handler(w).life = "destroyed" =>
      /\ Handler(w).pc = "done"
      /\ ~Handler(w).joinable
      /\ w \notin registry.clients_

DestroyedByRegistryStep ==
  \A w \in Handlers :
    (Handler(w).life = "alive" /\ handlers'[w].life = "destroyed") =>
      /\ Handler(w).pc = "done"
      /\ ~Handler(w).joinable
      /\ w \in registry.clients_ /\ w \notin registry'.clients_
      /\ \E t \in Stoppers :
           /\ registry.clients_mutex_ = {t}
           /\ stoppers'[t].pc # stoppers[t].pc
      /\ handlers'[w].pc = Handler(w).pc

\* C18: a ClientHandler is destroyed only by the cleanup thread's erase or
\* by Server::Stop's clear, both under clients_mutex_, and only when its
\* thread has left Run and has been joined; a handler's own thread never
\* destroys it.
DestroyedOnlyAfterJoin == []DestroyedAfterJoin /\ [][DestroyedByRegistryStep]_vars

-----------------------------------------------------------------------------
(* The threads of a Client: main, SendMessages, ReceiveMessages *)

\* chat messages the user types
MaxChat == 2
\* Messages from the server that the client answers through its queue
MaxIn == 1

\* what the two enqueuing threads put on the queue: main numbers its
\* Messages from 1, the receive thread from FirstReply
FirstReply == 11

ClientRest == <<codecVars, frameVars, serverVars, xferVars, lifeVars>>

\* the state Connect leaves behind: both threads started (part_005:270-275)
ClientInit ==
  /\ the_client = [sending_ |-> TRUE, receiving_ |-> TRUE, valid |-> TRUE,
                   send_queue_ |-> <<>>, send_queue_mutex_ |-> {}]
  /\ client_threads = [main |-> "input", send |-> "loop", recv |-> "recv",
                       send_joinable |-> TRUE, recv_joinable |-> TRUE, message_to_send |-> 0]
  /\ connection = [enqueued |-> <<>>, written |-> <<>>, server_open |-> TRUE,
                   chats |-> 0, replies |-> 0]
  /\ CodecIdle
  /\ FrameIdle
  /\ ServerIdle
  /\ XferIdle
  /\ LifeIdle

\* send_queue_cv_.notify_one(): a thread blocked in wait is woken
Notified(threads) ==
  IF threads.send = "waiting" THEN [threads EXCEPT !.send = "woken"] ELSE threads

\* send_queue_.front() / send_queue_.pop()
QueueBack(q) == q[Len(q)]
QueueFront(q) == Head(q)

\* Client::SendChatMessage: the Message is pushed under send_queue_mutex_
\* and the send thread is notified
MainSendChatMessage ==
  /\ client_threads.main = "input"
  /\ connection.chats < MaxChat
  /\ the_client.valid
  /\ the_client.send_queue_mutex_ = {}
  /\ the_client' = [the_client EXCEPT !.send_queue_ = Append(@, connection.chats + 1)]
  /\ connection' = [connection EXCEPT !.chats = @ + 1,
                                      !.enqueued = Append(@, connection.chats + 1)]
  /\ client_threads' = Notified(client_threads)
  /\ UNCHANGED ClientRest

\* SendMessages: while (sending_ && server_socket_->IsValid())
WriterLoop ==
  /\ client_threads.send = "loop"
  /\ client_threads' = [client_threads EXCEPT !.send =
                          IF the_client.sending_ /\ the_client.valid THEN "lock" ELSE "exit"]
  /\ UNCHANGED <<the_client, connection>>
  /\ UNCHANGED ClientRest

\* the unique_lock is taken (or retaken on waking) and wait's predicate is
\* evaluated; with it true and sending_ set, the front Message is popped
\* and the lock released (part_005:411-424)
WriterLock ==
  /\ client_threads.send \in {"lock", "woken"}
  /\ the_client.send_queue_mutex_ = {}
  /\ IF the_client.send_queue_ = <<>> /\ the_client.sending_
     THEN /\ the_client' = [the_client EXCEPT !.send_queue_mutex_ = {"send_thread_"}]
          /\ client_threads' = [client_threads EXCEPT !.send = "block"]
     ELSE IF ~the_client.sending_
     THEN /\ client_threads' = [client_threads EXCEPT !.send = "exit"]
          /\ UNCHANGED the_client
     ELSE /\ client_threads' = [client_threads EXCEPT
                                  !.send = "send",
                                  !.message_to_send = QueueFront(the_client.send_queue_)]
          /\ the_client' = [the_client EXCEPT !.send_queue_ = Tail(@)]
  /\ UNCHANGED connection
  /\ UNCHANGED ClientRest

\* wait: the lock is released and the thread blocks
WriterBlock ==
  /\ client_threads.send = "block"
  /\ the_client' = [the_client EXCEPT !.send_queue_mutex_ = {}]
  /\ client_threads' = [client_threads EXCEPT !.send = "waiting"]
  /\ UNCHANGED connection
  /\ UNCHANGED ClientRest

\* Client::SendMessage outside the lock (part_005:427-431, 583-604)
WriterSend ==
  /\ client_threads.send = "send"
  /\ connection' = [connection EXCEPT !.written =
                      IF the_client.valid THEN Append(@, client_threads.message_to_send)
                      ELSE @]
  /\ client_threads' = [client_threads EXCEPT !.send = "loop", !.message_to_send = 0]
  /\ UNCHANGED the_client
  /\ UNCHANGED ClientRest

\* after the loop the socket is closed if it is valid (part_005:436-438)
WriterExit ==
  /\ client_threads.send = "exit"
  /\ the_client' = [the_client EXCEPT !.valid = FALSE]
  /\ client_threads' = [client_threads EXCEPT !.send = "done"]
  /\ UNCHANGED connection
  /\ UNCHANGED ClientRest

\* ReceiveMessages: Receive returns a Message whose handler answers with
\* AddMessageToSendQueue (part_005:455-486, 1091-1098); then the loop
\* condition is evaluated
ReaderReceive ==
  /\ client_threads.recv = "recv"
  /\ the_client.valid
  /\ connection.server_open
  /\ connection.replies < MaxIn
  /\ the_client.send_queue_mutex_ = {}
  /\ the_client' = [the_client EXCEPT
                      !.send_queue_ = Append(@, FirstReply + connection.replies)]
  /\ connection' = [connection EXCEPT
                      !.replies = @ + 1,
                      !.enqueued = Append(@, FirstReply + connection.replies)]
  /\ client_threads' = [Notified(client_threads) EXCEPT !.recv =
                          IF the_client.receiving_ THEN "recv" ELSE "exit"]
  /\ UNCHANGED ClientRest

\* Receive returns 0 or an error: receiving_.store(false) (part_005:487-510)
ReaderEnd ==
  /\ client_threads.recv = "recv"
  /\ ~connection.server_open \/ ~the_client.valid
  /\ the_client' = [the_client EXCEPT !.receiving_ = FALSE]
  /\ client_threads' = [client_threads EXCEPT !.recv = "exit"]
  /\ UNCHANGED connection
  /\ UNCHANGED ClientRest

\* after the loop the socket is closed if it is valid (part_005:513-516)
ReaderExit ==
  /\ client_threads.recv = "exit"
  /\ the_client' = [the_client EXCEPT !.valid = FALSE]
  /\ client_threads' = [client_threads EXCEPT !.recv = "done"]
  /\ UNCHANGED connection
  /\ UNCHANGED ClientRest

\* the server closes the connection
ServerCloses ==
  /\ connection.server_open
  /\ connection' = [connection EXCEPT !.server_open = FALSE]
  /\ UNCHANGED <<the_client, client_threads>>
  /\ UNCHANGED ClientRest

\* Disconnect calls StopSendThread: if (sending_) sending_.store(false)
\* (part_005:285-286, 353-355)
StopSendThreadFlag ==
  /\ client_threads.main = "input"
  /\ the_client' = [the_client EXCEPT !.sending_ = FALSE]
  /\ client_threads' = [client_threads EXCEPT !.main =
                          IF the_client.sending_ THEN "notify" ELSE "stop_receive"]
  /\ UNCHANGED connection
  /\ UNCHANGED ClientRest

\* send_queue_cv_.notify_one() (part_005:356)
StopSendThreadNotify ==
  /\ client_threads.main = "notify"
  /\ client_threads' = [Notified(client_threads) EXCEPT !.main = "join_send"]
  /\ UNCHANGED <<the_client, connection>>
  /\ UNCHANGED ClientRest

\* send_thread_.join() (part_005:357-359)
StopSendThreadJoin ==
  /\ client_threads.main = "join_send"
  /\ client_threads.send = "done"
  /\ client_threads' = [client_threads EXCEPT !.main = "stop_receive",
                                              !.send_joinable = FALSE]
  /\ UNCHANGED <<the_client, connection>>
  /\ UNCHANGED ClientRest

\* StopReceiveThread: if (receiving_) { receiving_.store(false); Close(); ...
\* (part_005:376-382)
StopReceiveThreadFlag ==
  /\ client_threads.main = "stop_receive"
  /\ IF the_client.receiving_
     THEN /\ the_client' = [the_client EXCEPT !.receiving_ = FALSE, !.valid = FALSE]
          /\ client_threads' = [client_threads EXCEPT !.main = "join_receive"]
     ELSE /\ client_threads' = [client_threads EXCEPT !.main = "close"]
          /\ UNCHANGED the_client
  /\ UNCHANGED connection
  /\ UNCHANGED ClientRest

\* receive_thread_.join() (part_005:383-385)
StopReceiveThreadJoin ==
  /\ client_threads.main = "join_receive"
  /\ client_threads.recv = "done"
  /\ client_threads' = [client_threads EXCEPT !.main = "close", !.recv_joinable = FALSE]
  /\ UNCHANGED <<the_client, connection>>
  /\ UNCHANGED ClientRest

\* Disconnect closes the socket if it is valid, and returns (part_005:288-291)
DisconnectReturn ==
  /\ client_threads.main = "close"
  /\ the_client' = [the_client EXCEPT !.valid = FALSE]
  /\ client_threads' = [client_threads EXCEPT !.main = "returned"]
  /\ UNCHANGED connection
  /\ UNCHANGED ClientRest

ClientNext ==
  \/ MainSendChatMessage
  \/ WriterLoop \/ WriterLock \/ WriterBlock \/ WriterSend \/ WriterExit
  \/ ReaderReceive \/ ReaderEnd \/ ReaderExit
  \/ ServerCloses
  \/ StopSendThreadFlag \/ StopSendThreadNotify \/ StopSendThreadJoin
  \/ StopReceiveThreadFlag \/ StopReceiveThreadJoin \/ DisconnectReturn

SpecClient == ClientInit /\ [][ClientNext]_vars

\* C13: once Disconnect has returned, the send loop and the receive loop
\* have both ended and both threads have been joined.
DisconnectJoinsBoth ==
  client_threads.main = "returned" =>
    /\ client_threads.send = "done" /\ ~client_threads.send_joinable
    /\ client_threads.recv = "done" /\ ~client_threads.recv_joinable

IsPrefix(s, t) == Len(s) <= Len(t) /\ SubSeq(t, 1, Len(s)) = s

\* C16: what the send thread has written to the socket is, Message for
\* Message, the beginning of what was pushed on send_queue_, in the order
\* the pushes were made, whichever thread made them.
ClientFifo == IsPrefix(connection.written, connection.enqueued)

\* a reply pushed by the receive thread was written before a chat message
\* pushed by main after it, and a second chat message followed
ClientFifoWitness ==
  /\ Len(connection.written) = 3
  /\ connection.written[1] = FirstReply
  /\ connection.written[2] = 1
  /\ connection.written[3] = 2

-----------------------------------------------------------------------------
(* A received FILE_TRANSFER_ERROR *)

\* the error Message at the head of client c's connection is taken by c's
\* receive thread in this step
ClientTakesError(c) ==
  /\ to_client[c] # <<>>
  /\ to_client'[c] = Tail(to_client[c])
  /\ Head(to_client[c]).header.type = FILE_TRANSFER_ERROR
  /\ Head(to_client[c]).header.recipient_id = client_id_[c]

\* the transfer state of client c that an error from peer concerns: the
\* state kept with that peer; an error made by the server (peer -1) while c
\* holds one state only concerns that state
ConcernsOutgoing(c, peer) ==
  /\ outgoing_transfer_[c] # <<>>
  /\ \/ outgoing_transfer_[c][1].recipient_id = peer
     \/ peer = -1 /\ incoming_transfer_[c] = <<>>
ConcernsIncoming(c, peer) ==
  /\ incoming_transfer_[c] # <<>>
  /\ \/ incoming_transfer_[c][1].sender_id = peer
     \/ peer = -1 /\ outgoing_transfer_[c] = <<>>

ErrorDiscardsStep ==
  \A c \in Clients :
    /\ ClientTakesError(c) =>
         /\ ConcernsOutgoing(c, Head(to_client[c]).header.sender_id)
              => outgoing_transfer_'[c] = <<>>
         /\ ConcernsIncoming(c, Head(to_client[c]).header.sender_id)
              => incoming_transfer_'[c] = <<>>
         /\ ( /\ Head(to_client[c]).header.sender_id # -1
              /\ ~ConcernsOutgoing(c, Head(to_client[c]).header.sender_id) )
              => outgoing_transfer_'[c] = outgoing_transfer_[c]
         /\ ( /\ Head(to_client[c]).header.sender_id # -1
              /\ ~ConcernsIncoming(c, Head(to_client[c]).header.sender_id) )
              => incoming_transfer_'[c] = incoming_transfer_[c]
    /\ ( /\ to_server[c] # <<>>
         /\ to_server'[c] = Tail(to_server[c])
         /\ Head(to_server[c]).header.type = FILE_TRANSFER_ERROR
         /\ Head(to_server[c]).header.sender_id = c )
       => /\ incoming_transfers_'[c] = <<>>
          /\ \A d \in Clients \ {c} : incoming_transfers_'[d] = incoming_transfers_[d]

\* C21: a FILE_TRANSFER_ERROR that a client receives discards the transfer
\* state, outgoing and incoming, that it keeps with the peer the error
\* concerns, whether the other client sent the error or the server made it
\* about that transfer, and leaves state kept with another peer alone; one
\* that the server receives from a client discards the server's incoming
\* transfer from that client and no other.
ErrorDiscards == [][ErrorDiscardsStep]_vars

-----------------------------------------------------------------------------
(* A connection whose client end is not this repository's client *)

\* the connection of the peer; the other connection is a Client
RawPeer == 1
\* Messages the peer writes
MaxWrites == 3

\* what the peer writes: well-formed Messages of the four transfer types,
\* with its own id as sender_id; the file it announces has 5 bytes
ChunkPayloads == {<<1, 2, 3>>, <<1, 2, 3, 4, 5>>}
TextX == <<120>>
PeerMessages ==
  {MakeMessage(FILE_TRANSFER_REQUEST, RawPeer, r, RequestPayload(r, PathB)) :
     r \in (Clients \ {RawPeer}) \cup {-1}}
  \cup {MakeMessage(FILE_DATA_CHUNK, RawPeer, r, p) :
          r \in (Clients \ {RawPeer}) \cup {-1}, p \in ChunkPayloads}
  \cup {MakeMessage(FILE_TRANSFER_COMPLETE, RawPeer, r, <<>>) :
          r \in (Clients \ {RawPeer}) \cup {-1, StrangerId}}
  \cup {MakeMessage(FILE_TRANSFER_ERROR, RawPeer, r, TextX) :
          r \in (Clients \ {RawPeer}) \cup {-1, StrangerId}}

\* the peer sends a Message (PosixSocket::Receive on the server's side
\* will return its bytes)
PeerWrites(m) ==
  /\ x_wrote < MaxWrites
  /\ x_wrote' = x_wrote + 1
  /\ to_server' = [to_server EXCEPT ![RawPeer] = Append(@, m)]
  /\ UNCHANGED <<client_id_, outgoing_transfer_, incoming_transfer_, send_queue_, to_client,
                 incoming_transfers_, x_calls, x_ret, x_ok, received_files, x_conn,
                 codecVars, frameVars, serverVars, lifeVars, clientVars>>

PeerNext ==
  \/ \E m \in PeerMessages : PeerWrites(m)
  \/ \E c \in Clients : ServerReceive(c)
  \/ \E c \in Clients \ {RawPeer} : SendMessages(c)
  \/ \E c \in Clients \ {RawPeer} : ReceiveMessages(c)

SpecPeer == TransferInit /\ [][PeerNext]_vars

-----------------------------------------------------------------------------
(* FILE_TRANSFER_COMPLETE for an active incoming transfer *)

\* the Message at the head of client c's connection is taken by c in this step
ClientTakes(c, type) ==
  /\ to_client[c] # <<>>
  /\ to_client'[c] = Tail(to_client[c])
  /\ Head(to_client[c]).header.type = type

\* the Message at the head of connection c is taken by the server in this step
ServerTakes(c, type) ==
  /\ to_server[c] # <<>>
  /\ to_server'[c] = Tail(to_server[c])
  /\ Head(to_server[c]).header.type = type

\* the Messages a step appended to a sequence
Added(before, after) == SubSeq(after, Len(before) + 1, Len(after))

HasError(msgs) == \E i \in 1..Len(msgs) : msgs[i].header.type = FILE_TRANSFER_ERROR

CompleteChecksSizeStep ==
  \A c \in Clients :
    /\ ( /\ ClientTakes(c, FILE_TRANSFER_COMPLETE)
         /\ Head(to_client[c]).header.recipient_id = client_id_[c]
         /\ incoming_transfer_[c] # <<>>
         /\ incoming_transfer_[c][1].sender_id = Head(to_client[c]).header.sender_id )
       => /\ incoming_transfer_'[c] = <<>>
          /\ send_queue_'[c] =
               IF incoming_transfer_[c][1].received_size # incoming_transfer_[c][1].total_size
               THEN Append(send_queue_[c],
                           MakeMessage(FILE_TRANSFER_ERROR, client_id_[c],
                                       Head(to_client[c]).header.sender_id, TextSizeMismatch))
               ELSE send_queue_[c]
    /\ ( /\ ServerTakes(c, FILE_TRANSFER_COMPLETE)
         /\ Head(to_server[c]).header.recipient_id = -1
         /\ Head(to_server[c]).header.sender_id = c
         /\ incoming_transfers_[c] # <<>> )
       => /\ incoming_transfers_'[c] = <<>>
          /\ HasError(Added(to_client[c], to_client'[c]))
               <=> incoming_transfers_[c][1].received_size
                     # incoming_transfers_[c][1].total_size

\* C22: a FILE_TRANSFER_COMPLETE for an active incoming transfer makes the
\* receiver, a client or the server, clear the incoming state, and send a
\* FILE_TRANSFER_ERROR back to the sender exactly when the received size
\* differs from the declared total size.
CompleteChecksSize == [][CompleteChecksSizeStep]_vars

-----------------------------------------------------------------------------
(* payload_size of every Message on its way *)

\* the Messages waiting in a send queue or travelling on a connection: each
\* is serialized by the next SendMessage, or was decoded by the last Run
InFlight ==
  UNION {{q[i] : i \in DOMAIN q} :
           q \in {send_queue_[c] : c \in Clients} \cup {to_server[c] : c \in Clients}
                   \cup {to_client[c] : c \in Clients}}

\* the receive loop fed the first n bytes of message's serialization
FedPrefix(message, n) ==
  ExtractFrames(SubSeq(SerializeMessage(message, 0), 1, n))

\* C23: every Message the program constructs or forwards has header
\* payload_size equal to the length of its payload when it is serialized,
\* and the receive loop hands no Message to a handler before the bytes its
\* header declares are buffered (and the Message itself once they are).
PayloadSizeHolds ==
  \A m \in InFlight :
     /\ WellSized(m)
     /\ \A n \in 0..(kMessageHeaderSize + Len(m.payload) - 1) : FedPrefix(m, n).msgs = <<>>
     /\ FedPrefix(m, kMessageHeaderSize + Len(m.payload)) = [buffer |-> <<>>, msgs |-> <<m>>]

\* a chunk of the peer relayed to client 2, a request, READY and an error of
\* the server's, all on their way
PayloadSizeHoldsWitness ==
  /\ \E i \in DOMAIN to_client[2] : \E m \in {to_client[2][i]} :
        m.header.type = FILE_DATA_CHUNK /\ m.header.sender_id = RawPeer /\ Len(m.payload) = 5
  /\ \E i \in DOMAIN to_client[RawPeer] : \E m \in {to_client[RawPeer][i]} :
        m.header.type = FILE_TRANSFER_ERROR /\ m.header.sender_id = -1 /\ m.payload # <<>>

-----------------------------------------------------------------------------
(* DeserializeMessage on bytes that hold no whole Message *)

\* data is shorter than a header, or than the header and the payload its
\* payload_size field declares
TooShort(data) ==
  \/ Len(data) < kMessageHeaderSize
  \/ SizeLess(SizeT(Len(data)), SizeAdd(SizeT(kMessageHeaderSize), PeekPayloadSize(data)))

\* C24: DeserializeMessage applied to bytes shorter than the header, or to
\* bytes whose declared payload size exceeds the bytes available, fails with
\* an error the caller can tell apart from every successfully decoded
\* Message: what it returns for such bytes is what it returns for no whole
\* Message, here the serialization of Message().
MalformedIsTold ==
  (c_pc = "done" /\ TooShort(c_data)) =>
     \A pad \in PadValues : c_out # DeserializeMessage(SerializeMessage(DefaultMessage, pad))

-----------------------------------------------------------------------------
(* Removal of a finished handler by the cleanup thread *)

\* the cleanup thread has a step to take, or the thread that holds
\* clients_mutex_ has one that brings it nearer to releasing it
RemovalCanGoOn ==
  \/ ENABLED (RemoveClientLock \/ RemoveClientErase \/ RemoveClientNullStop)
  \/ \E v \in Workers :
        /\ HandlerThread(v) \in clients_mutex_
        /\ ENABLED (BroadcastStep(v) \/ BroadcastUnlock(v))

\* worker w is out of the registry and the server runs on without it
RemovedFromRegistry(w) ==
  /\ ServerUp
  /\ cl_pc = "wait"
  /\ GetClientHandler(worker[w].id) = NullPtr
  /\ \A v \in Workers : h_pc[v] \notin {"none", "done"} =>
        /\ worker[v].life = "alive"
        /\ GetClientHandler(worker[v].id) = v

\* C25: while the server is running, a worker whose receive loop has exited
\* on a zero-byte read or a receive error has its id on the finished queue,
\* and the cleanup loop removes exactly that worker: until GetClientHandler
\* for its id returns not-found with every other registry entry unchanged,
\* the removal is queued or under way and can go on.
AsyncRemoval ==
  \A w \in Workers : h_pc[w] = "done" =>
     \/ RemovedFromRegistry(w)
     \/ /\ \/ worker[w].id \in SeqToSet(finished_client_ids_)
           \/ cl_id = worker[w].id
        /\ RemovalCanGoOn

-----------------------------------------------------------------------------
(* The condition wait of the send thread and StopSendThread *)

\* the send thread has a step to take, or the receive thread can still push
\* a Message and notify it
WriterCanGoOn ==
  \/ ENABLED (WriterLoop \/ WriterLock \/ WriterBlock \/ WriterSend \/ WriterExit)
  \/ ENABLED ReaderReceive

\* C26: once StopSendThread has cleared sending_ and notified, the writer
\* loop leaves its wait and terminates, however the flag store and the
\* notify interleave with the writer's check of the wait predicate: while
\* main waits in send_thread_.join(), the send thread has finished or can go
\* on.
StopReleasesWait ==
  client_threads.main = "join_send" => (client_threads.send = "done" \/ WriterCanGoOn)

-----------------------------------------------------------------------------
(* What the send thread leaves on the queue when it is stopped *)

\* C27: every Message that was pushed on send_queue_ before Disconnect /
\* StopSendThread was called has been written to the socket when the writer
\* loop has exited.  The chat Messages are pushed by main itself before it
\* calls Disconnect; the case taken is the one where nothing but the stop
\* ended the loop (the receive thread is still in Receive, so the socket
\* was valid all along).
StopDrainsWriter ==
  (/\ client_threads.send = "done"
   /\ client_threads.main \in {"notify", "join_send"}
   /\ client_threads.recv = "recv") =>
     \A i \in 1..Len(connection.enqueued) :
        connection.enqueued[i] < FirstReply =>
           \E j \in 1..Len(connection.written) : connection.written[j] = connection.enqueued[i]

-----------------------------------------------------------------------------
(* A transfer Message for a recipient that is not registered *)

MissingRecipientStep ==
  \A c \in Clients :
    \A type \in {FILE_TRANSFER_REQUEST, FILE_TRANSFER_COMPLETE, FILE_TRANSFER_ERROR} :
      ( /\ ServerTakes(c, type)
        /\ Head(to_server[c]).header.recipient_id # -1
        /\ RecipientHandler(Head(to_server[c]).header.recipient_id) = NullPtr )
      => /\ HasError(Added(to_client[c], to_client'[c]))
         /\ \A d \in Clients \ {c} : to_client'[d] = to_client[d]

\* C28: a FILE_TRANSFER_REQUEST, FILE_TRANSFER_COMPLETE or
\* FILE_TRANSFER_ERROR whose recipient_id is not -1 and names no registered
\* handler is answered by the server with a FILE_TRANSFER_ERROR on the
\* connection it arrived on, and goes to nobody else.
MissingRecipientAnswered == [][MissingRecipientStep]_vars

-----------------------------------------------------------------------------
(* A FILE_DATA_CHUNK that belongs to no transfer *)

\* the peer's connection next to a client whose user sends a file to the
\* server, so that transfer state of somebody else exists on both sides
\* when a chunk of the peer's arrives
BusyPeerNext ==
  \/ \E m \in PeerMessages : PeerWrites(m)
  \/ \E c \in Clients : ServerReceive(c)
  \/ \E c \in Clients \ {RawPeer} : SendMessages(c)
  \/ \E c \in Clients \ {RawPeer} : ReceiveMessages(c)
  \/ \E c \in Clients \ {RawPeer} : RequestFileTransfer(c, -1, PathB)

SpecBusyPeer == TransferInit /\ [][BusyPeerNext]_vars

\* the chunk at the head of connection c finds no transfer of its sender's
\* on the server
ServerHasNoTransferFor(c) ==
  /\ ServerTakes(c, FILE_DATA_CHUNK)
  /\ Head(to_server[c]).header.recipient_id = -1
  /\ ~HasTransfer(incoming_transfers_, Head(to_server[c]).header.sender_id)

\* the chunk at the head of client c's connection finds no incoming
\* transfer from its sender at the client
ClientHasNoTransferFor(c) ==
  /\ ClientTakes(c, FILE_DATA_CHUNK)
  /\ \/ incoming_transfer_[c] = <<>>
     \/ incoming_transfer_[c][1].sender_id # Head(to_client[c]).header.sender_id

UnmatchedChunkStep ==
  \A c \in Clients :
    (ServerHasNoTransferFor(c) \/ ClientHasNoTransferFor(c))
      => /\ UNCHANGED <<incoming_transfers_, incoming_transfer_, outgoing_transfer_,
                        received_files, x_conn>>
         /\ \A d \in Clients :
               \A i \in DOMAIN Added(to_client[d], to_client'[d]) :
                  /\ d = c
                  /\ Added(to_client[d], to_client'[d])[i].header.type = FILE_TRANSFER_ERROR

\* C29: a FILE_DATA_CHUNK whose sender has no matching active incoming
\* transfer at the endpoint that receives it is rejected: nothing is written
\* to any file, no received_size and no transfer state changes, nothing is
\* relayed, and the connection stays up (the server answers with a
\* FILE_TRANSFER_ERROR, the client drops the chunk).
UnmatchedChunkRejected == [][UnmatchedChunkStep]_vars

\* the server has answered a chunk of the peer's with "Received data for
\* unknown transfer." while it holds the other client's transfer, and that
\* client, its own transfer under way, has been handed a chunk of the peer's
UnmatchedChunkRejectedWitness ==
  /\ \E i \in DOMAIN to_client[RawPeer] : to_client[RawPeer][i].payload = TextUnknownTransfer
  /\ incoming_transfers_[2] # <<>>
  /\ outgoing_transfer_[2] # <<>>
  /\ x_wrote >= 2
  /\ \E i \in DOMAIN to_client[2] : to_client[2][i].header.type = FILE_DATA_CHUNK

-----------------------------------------------------------------------------
\* Outbound chunking.  SendNextFileChunkToQueue is called by nothing in the
\* program, and RequestFileTransfer leaves file_stream closed; the function
\* is taken here from the state its own guard asks for: client 1 holds an
\* outgoing transfer with an open stream and nothing sent, and calls it until
\* the transfer is gone, while the send thread empties the queue and the user
\* asks for further transfers.

ChunkingInit ==
  /\ client_id_ = [c \in Clients |-> c]
  /\ \E file_path \in {PathA, PathB}, recipient_id \in {2, -1} :
       outgoing_transfer_ =
         [c \in Clients |->
            IF c = 1
            THEN <<[OutgoingFileTransfer(file_path, file_size(file_path), recipient_id)
                      EXCEPT !.is_open = TRUE]>>
            ELSE <<>>]
  /\ incoming_transfer_ = [c \in Clients |-> <<>>]
  /\ send_queue_ = [c \in Clients |-> <<>>]
  /\ to_server = [c \in Clients |-> <<>>]
  /\ to_client = [c \in Clients |-> <<>>]
  /\ incoming_transfers_ = [c \in Clients |-> <<>>]
  /\ x_calls = [c \in Clients |-> 0]
  /\ x_ret = [c \in Clients |-> TRUE]
  /\ x_ok = [c \in Clients |-> <<>>]
  /\ received_files = [c \in Clients |-> <<>>]
  /\ x_conn = [c \in Clients |-> "open"]
  /\ x_wrote = 0
  /\ CodecIdle
  /\ FrameIdle
  /\ ServerIdle
  /\ LifeIdle
  /\ ClientIdle

ChunkingNext ==
  \E c \in Clients :
    \/ SendNextFileChunkToQueue(c)
    \/ SendMessages(c)
    \/ \E recipient_id \in {2, -1} : RequestFileTransfer(c, recipient_id, PathB)

SpecChunking == ChunkingInit /\ [][ChunkingNext]_vars

\* every Message client c has pushed so far, in the order of the pushes
Pushed(c) == to_server[c] \o send_queue_[c]

ChunkingBounds ==
  \A c \in Clients :
    /\ outgoing_transfer_[c] # <<>> =>
         /\ 0 <= outgoing_transfer_[c][1].sent_size
         /\ outgoing_transfer_[c][1].sent_size <= outgoing_transfer_[c][1].total_size
    /\ \A i \in DOMAIN Pushed(c) :
         Pushed(c)[i].header.type = FILE_DATA_CHUNK =>
           /\ Len(Pushed(c)[i].payload) >= 1
           /\ Len(Pushed(c)[i].payload) <= kFileChunkSize

ChunkingStep ==
  \A c \in Clients :
    ( /\ Len(Pushed(c)') > Len(Pushed(c))
      /\ Pushed(c)'[Len(Pushed(c)) + 1].header.type = FILE_DATA_CHUNK ) =>
      LET old == outgoing_transfer_[c][1]
          added == SubSeq(Pushed(c)', Len(Pushed(c)) + 1, Len(Pushed(c)'))
      IN  /\ outgoing_transfer_[c] # <<>>
          /\ IF old.sent_size + Len(added[1].payload) = old.total_size
               THEN /\ Len(added) = 2
                    /\ added[2].header.type = FILE_TRANSFER_COMPLETE
                    /\ added[2].header.sender_id = added[1].header.sender_id
                    /\ added[2].header.recipient_id = old.recipient_id
                    /\ added[1].header.recipient_id = old.recipient_id
                    /\ outgoing_transfer_'[c] = <<>>
               ELSE /\ Len(added) = 1
                    /\ outgoing_transfer_'[c] # <<>>
                    /\ outgoing_transfer_'[c][1].sent_size
                         = old.sent_size + Len(added[1].payload)
                    /\ outgoing_transfer_'[c][1].is_open

-----------------------------------------------------------------------------
\* A failed read in the middle of an outbound transfer.

AbortStep ==
  \A c \in Clients :
    ( /\ outgoing_transfer_[c] # <<>>
      /\ Len(Pushed(c)') > Len(Pushed(c))
      /\ Pushed(c)'[Len(Pushed(c)) + 1].header.type = FILE_TRANSFER_ERROR )
    => /\ Len(Pushed(c)') = Len(Pushed(c)) + 1
       /\ Pushed(c)'[Len(Pushed(c)) + 1].header.recipient_id
            = outgoing_transfer_[c][1].recipient_id
       /\ Pushed(c)'[Len(Pushed(c)) + 1].header.sender_id = client_id_[c]
       /\ outgoing_transfer_'[c] = <<>>

ReRequestStep ==
  \A c \in Clients :
    (x_calls'[c] > x_calls[c] /\ outgoing_transfer_[c] = <<>> /\ client_id_[c] # -1)
    => x_ret'[c] /\ outgoing_transfer_'[c] # <<>>

NotAbandoned ==
  \A c \in Clients :
    (outgoing_transfer_[c] # <<>> /\ outgoing_transfer_[c][1].is_open)
    => outgoing_transfer_[c][1].sent_size < outgoing_transfer_[c][1].total_size

-----------------------------------------------------------------------------
\* Client identity.  The client end of a connection whose other end may
\* write transfer Messages before, or without, the CLIENT_ID_ASSIGNMENT.

\* the client looked at
EarlyClient == 2

\* what the other end writes to client c: its id assignment, a request
\* addressed to it, and a request and a chunk with recipient_id -1
EarlyMessages(c) ==
  {IdAssignmentMsg(c),
   MakeMessage(FILE_TRANSFER_REQUEST, 1, c, RequestPayload(c, PathB)),
   MakeMessage(FILE_TRANSFER_REQUEST, 1, -1, RequestPayload(-1, PathB)),
   MakeMessage(FILE_DATA_CHUNK, 1, -1, <<1, 2, 3>>)}

\* PosixSocket::Receive on the client's side will return the bytes of m
ServerEndWrites(c, m) ==
  /\ x_wrote < MaxWrites
  /\ x_wrote' = x_wrote + 1
  /\ to_client' = [to_client EXCEPT ![c] = Append(@, m)]
  /\ UNCHANGED <<client_id_, outgoing_transfer_, incoming_transfer_, send_queue_, to_server,
                 incoming_transfers_, x_calls, x_ret, x_ok, received_files, x_conn,
                 codecVars, frameVars, serverVars, lifeVars, clientVars>>

EarlyInit ==
  /\ client_id_ = [c \in Clients |-> -1]
  /\ outgoing_transfer_ = [c \in Clients |-> <<>>]
  /\ incoming_transfer_ = [c \in Clients |-> <<>>]
  /\ send_queue_ = [c \in Clients |-> <<>>]
  /\ to_server = [c \in Clients |-> <<>>]
  /\ to_client = [c \in Clients |-> <<>>]
  /\ incoming_transfers_ = [c \in Clients |-> <<>>]
  /\ x_calls = [c \in Clients |-> 0]
  /\ x_ret = [c \in Clients |-> TRUE]
  /\ x_ok = [c \in Clients |-> <<>>]
  /\ received_files = [c \in Clients |-> <<>>]
  /\ x_conn = [c \in Clients |-> "open"]
  /\ x_wrote = 0
  /\ CodecIdle
  /\ FrameIdle
  /\ ServerIdle
  /\ LifeIdle
  /\ ClientIdle

EarlyNext ==
  \/ \E m \in EarlyMessages(EarlyClient) : ServerEndWrites(EarlyClient, m)
  \/ ReceiveMessages(EarlyClient)
  \/ \E recipient_id \in {1, -1} : RequestFileTransfer(EarlyClient, recipient_id, PathB)
  \/ SendMessages(EarlyClient)

SpecEarly == EarlyInit /\ [][EarlyNext]_vars

NoSenderMinusOne ==
  \A c \in Clients : \A i \in DOMAIN Pushed(c) : Pushed(c)[i].header.sender_id # -1

IdentityStep ==
  \A c \in Clients :
    /\ ClientTakes(c, CLIENT_ID_ASSIGNMENT) =>
         client_id_'[c] = stoi(Head(to_client[c]).payload).val
    /\ \A i \in DOMAIN Added(Pushed(c), Pushed(c)') :
         Added(Pushed(c), Pushed(c)')[i].header.sender_id = client_id_[c]
    /\ (x_calls'[c] > x_calls[c] /\ client_id_[c] = -1) =>
         ~x_ret'[c] /\ Pushed(c)' = Pushed(c)

\* C32: the client stores the id an ID assignment carries, every Message it
\* pushes carries its stored id as sender_id, RequestFileTransfer made while
\* the id is still -1 returns false and pushes nothing, and no Message with
\* sender_id -1 is ever pushed, whatever transfer Message is handled while
\* the id is still -1.
ClientIdentity == []NoSenderMinusOne /\ [][IdentityStep]_vars

-----------------------------------------------------------------------------
\* The handler chain.  The peer on connection 1 writes Messages of every
\* type, one of them a request whose header names another recipient than its
\* payload; connection 2 is a Client.

ChainMessages ==
  {MakeMessage(UNKNOWN, RawPeer, -1, TextX),
   MakeMessage(CLIENT_ID_ASSIGNMENT, RawPeer, 2, to_string(2)),
   MakeMessage(PRIVATE_MESSAGE, RawPeer, 2, TextX),
   MakeMessage(BROADCAST_MESSAGE, RawPeer, -1, TextX),
   MakeMessage(FILE_TRANSFER_REQUEST, RawPeer, -1, RequestPayload(-1, PathB)),
   MakeMessage(FILE_TRANSFER_REQUEST, RawPeer, 2, RequestPayload(2, PathB)),
   MakeMessage(FILE_TRANSFER_REQUEST, RawPeer, StrangerId, RequestPayload(2, PathB)),
   MakeMessage(FILE_DATA_CHUNK, RawPeer, -1, <<1, 2, 3>>),
   MakeMessage(FILE_TRANSFER_COMPLETE, RawPeer, -1, <<>>),
   MakeMessage(FILE_TRANSFER_ERROR, RawPeer, 2, TextX)}

ChainNext ==
  \/ \E m \in ChainMessages : PeerWrites(m)
  \/ \E c \in Clients : ServerReceive(c)
  \/ \E c \in Clients \ {RawPeer} : SendMessages(c)
  \/ \E c \in Clients \ {RawPeer} : ReceiveMessages(c)

SpecChain == TransferInit /\ [][ChainNext]_vars

\* handler h would return true for a Message of this type
Claims(h, type) ==
  IF h = "BroadcastMessageHandler" THEN type = BROADCAST_MESSAGE
  ELSE type \in TransferTypes

ChainStep ==
  \A c \in Clients :
    (to_server[c] # <<>> /\ to_server'[c] = Tail(to_server[c])) =>
      LET m == Head(to_server[c])
          r == CompositeHandleMessage(c, m, incoming_transfers_)
      IN  /\ r.invoked = SubSeq(handlers_, 1, Len(r.invoked))
          /\ \A i \in 1..(Len(r.invoked) - 1) : ~Claims(r.invoked[i], m.header.type)
          /\ r.ret <=> (r.invoked # <<>> /\ Claims(r.invoked[Len(r.invoked)], m.header.type))
          /\ ~r.ret => r.invoked = handlers_
          /\ m.header.type \in {UNKNOWN, CLIENT_ID_ASSIGNMENT, PRIVATE_MESSAGE} =>
               /\ ~r.ret
               /\ r.logged
               /\ to_client' = to_client
               /\ incoming_transfers_' = incoming_transfers_
               /\ x_conn' = x_conn

\* C33: the composite offers a Message to its handlers in the order they were
\* added and invokes none after the first that returns true; a Message of a
\* type no handler claims (UNKNOWN, CLIENT_ID_ASSIGNMENT, PRIVATE_MESSAGE) is
\* logged, false is returned, nothing is sent and the recorded transfers
\* and the connections stay as they are.
HandlerChain == [][ChainStep]_vars

\* the server has taken a PRIVATE_MESSAGE and a BROADCAST_MESSAGE of the
\* peer: the client has the broadcast, and only that, behind its id
HandlerChainWitness ==
  /\ x_wrote = 2
  /\ to_server[RawPeer] = <<>>
  /\ Len(to_client[2]) = 2
  /\ to_client[2][2].header.type = BROADCAST_MESSAGE

-----------------------------------------------------------------------------
\* Messages that are dropped

\* client c takes the Message at the head of its connection and nothing of
\* its state changes: no transfer, no id, nothing pushed, no file finished
ClientIgnores(c) ==
  /\ to_client[c] # <<>>
  /\ to_client'[c] = Tail(to_client[c])
  /\ outgoing_transfer_'[c] = outgoing_transfer_[c]
  /\ incoming_transfer_'[c] = incoming_transfer_[c]
  /\ send_queue_'[c] = send_queue_[c]
  /\ received_files'[c] = received_files[c]
  /\ Head(to_client[c]).header.type \in TransferTypes

DropStep ==
  \A c \in Clients :
    /\ ClientIgnores(c) => ~ClientSilent(Head(to_client[c]), client_id_[c])
    /\ (to_server[c] # <<>> /\ to_server'[c] = Tail(to_server[c])
        /\ ~CompositeHandleMessage(c, Head(to_server[c]), incoming_transfers_).ret)
       => CompositeHandleMessage(c, Head(to_server[c]), incoming_transfers_).logged

\* C34: a received Message that an endpoint does not act on is never dropped
\* without a line in the log: on the server a Message no handler claims, on
\* the client a transfer Message that is not addressed to it or that matches
\* no transfer.
NoSilentDrop == [][DropStep]_vars

-----------------------------------------------------------------------------
\* The pointer Server::GetClientHandler returns

\* C35: a handler thread that looked a recipient up with GetClientHandler
\* calls SendMessage on a ClientHandler that is still alive, however the
\* cleanup thread's removal of that recipient falls between the two.
LookupStaysAlive ==
  \A w \in Workers : \A i \in DOMAIN h_sent[w] : h_sent[w][i].live

-----------------------------------------------------------------------------
\* Server::Stop against a receive thread that needs the registry

\* Server::Stop waits in the join of handler w's thread with clients_mutex_
\* held, and that thread waits for clients_mutex_
WaitForEachOther(w) ==
  /\ stoppers[MainThread].pc = "stop_join"
  /\ stoppers[MainThread].w = w
  /\ Handler(w).joinable
  /\ MainThread \in registry.clients_mutex_
  /\ Handler(w).pc = "handle"

\* C36: Server::Stop comes to an end in every interleaving: no state is
\* reached in which Server::Stop waits for a receive thread to finish while
\* that thread waits for the registry lock Server::Stop holds.
ServerStopTerminates == \A w \in Handlers : ~WaitForEachOther(w)

-----------------------------------------------------------------------------
\* Transfer Messages under another client's sender_id.  The peer on
\* connection 1 writes chunk, completion and error Messages for the server
\* whose header carries the id of client 2, which has a transfer to the
\* server of its own.

SpoofMessages ==
  {MakeMessage(FILE_DATA_CHUNK, 2, -1, <<1, 2, 3>>),
   MakeMessage(FILE_TRANSFER_COMPLETE, 2, -1, <<>>),
   MakeMessage(FILE_TRANSFER_ERROR, 2, -1, TextX),
   MakeMessage(FILE_DATA_CHUNK, RawPeer, -1, <<1, 2, 3>>)}

SpoofNext ==
  \/ \E m \in SpoofMessages : PeerWrites(m)
  \/ \E c \in Clients : ServerReceive(c)
  \/ \E c \in Clients \ {RawPeer} : SendMessages(c)
  \/ \E c \in Clients \ {RawPeer} : ReceiveMessages(c)
  \/ \E c \in Clients \ {RawPeer} : RequestFileTransfer(c, -1, PathB)

SpecSpoof == TransferInit /\ [][SpoofNext]_vars

OwnTransferStep ==
  \A c \in Clients :
    (to_server[c] # <<>> /\ to_server'[c] = Tail(to_server[c])) =>
      \A d \in Clients \ {c} : incoming_transfers_'[d] = incoming_transfers_[d]

\* C37: a FILE_DATA_CHUNK, FILE_TRANSFER_COMPLETE or FILE_TRANSFER_ERROR
\* that arrives on the connection of client c changes no transfer to the
\* server but the one c's own request created, whatever sender_id its header
\* carries.
OwnTransferOnly == [][OwnTransferStep]_vars

-----------------------------------------------------------------------------
\* The outbound slot at rest

\* C38: the outgoing transfer a successful RequestFileTransfer records is
\* discarded in the end, whether the recipient is unregistered, rejects the
\* request or accepts it: once every queue and connection has drained, when
\* no Message is left that could still discard it, no client holds one.
SlotReleasedAtRest ==
  Quiescent => \A c \in Clients : outgoing_transfer_[c] = <<>>

-----------------------------------------------------------------------------
(* Two server threads sending to the same ClientHandler *)

\* The pieces one send() call may hand its buffer to the socket in. send()
\* on a blocking stream socket copies what the socket's send buffer has
\* room for and sleeps for more room with the socket unlocked; what another
\* thread sends meanwhile goes in between.
MaxPieces == 2

\* the room the socket's send buffer has when a send() call reaches it
SendBufferRoom == {4, 20, kReceiveBufferSize}

\* Two receive threads of the server (ClientHandler::Run of clients 1 and
\* 3), each with a Message for client 2.
SendingThreads == {1, 2}

\* std::lock_guard<std::mutex> lock(clients_mutex_): Server::BroadcastMessage
\* sends with clients_mutex_ held
SenderLock(t) ==
  /\ senders[t].pc = "BroadcastMessage"
  /\ clients_mutex_ = {}
  /\ clients_mutex_' = {t}
  /\ senders' = [senders EXCEPT ![t].pc = "SendMessage"]
  /\ UNCHANGED <<f_msgs, f_stream, f_delivered, receive_buffer_, f_dispatched, f_reads,
                 f_last, codecVars, acceptVars, worker, clients_, finished_client_ids_,
                 handlerVars, cleanupVars, xferVars, lifeVars, clientVars>>

\* ClientHandler::SendMessage up to the call of Send: no mutex is taken.
\* The relay of FileTransferHandler calls it on the pointer GetClientHandler
\* returned, with no lock held.
ClientHandlerSendMessage(t) ==
  /\ senders[t].pc \in {"relay", "SendMessage"}
  /\ \E pad \in PadValues :
        senders' = [senders EXCEPT ![t].pc = "send",
                                   ![t].data = SerializeMessage(f_msgs[t], pad)]
  /\ UNCHANGED <<f_msgs, f_stream, f_delivered, receive_buffer_, f_dispatched, f_reads,
                 f_last, codecVars, serverVars, xferVars, lifeVars, clientVars>>

\* the position of a thread whose send() has returned
AfterSend(t) == IF t \in clients_mutex_ THEN "unlock" ELSE "done"

\* PosixSocket::Send: one ::send(socket_fd_, data, size, MSG_NOSIGNAL). The
\* socket takes the next piece of the buffer; the call returns when it has
\* taken the last one, and SendMessage returns true.
PosixSocketSend(t) ==
  /\ senders[t].pc = "send"
  /\ \E room \in SendBufferRoom :
     \E n \in {IF senders[t].pieces + 1 = MaxPieces
                THEN Len(senders[t].data) - senders[t].sent
                ELSE Min(room, Len(senders[t].data) - senders[t].sent)} :
        /\ f_stream' = f_stream \o SubSeq(senders[t].data, senders[t].sent + 1,
                                          senders[t].sent + n)
        /\ senders' = [senders EXCEPT
                         ![t].sent = @ + n,
                         ![t].pieces = @ + 1,
                         ![t].pc = IF senders[t].sent + n = Len(senders[t].data)
                                   THEN AfterSend(t) ELSE "send"]
  /\ UNCHANGED <<f_msgs, f_delivered, receive_buffer_, f_dispatched, f_reads, f_last,
                 codecVars, serverVars, xferVars, lifeVars, clientVars>>

\* the end of Server::BroadcastMessage: the lock_guard releases clients_mutex_
SenderUnlock(t) ==
  /\ senders[t].pc = "unlock"
  /\ clients_mutex_' = clients_mutex_ \ {t}
  /\ senders' = [senders EXCEPT ![t].pc = "done"]
  /\ UNCHANGED <<f_msgs, f_stream, f_delivered, receive_buffer_, f_dispatched, f_reads,
                 f_last, codecVars, acceptVars, worker, clients_, finished_client_ids_,
                 handlerVars, cleanupVars, xferVars, lifeVars, clientVars>>

\* Client 2's receive loop: Receive returns the bytes the stream holds, up to
\* kReceiveBufferSize of them, and the loop extracts the frames.
WireReceive ==
  /\ f_delivered < Len(f_stream)
  /\ \E n \in {Min(Len(f_stream) - f_delivered, kReceiveBufferSize)} :
       \E r \in {Feed(receive_buffer_, SubSeq(f_stream, f_delivered + 1, f_delivered + n))} :
          /\ receive_buffer_' = r.buffer
          /\ f_dispatched' = f_dispatched \o r.msgs
          /\ f_last' = Len(r.msgs)
          /\ f_delivered' = f_delivered + n
  /\ f_reads' = f_reads + 1
  /\ UNCHANGED <<f_msgs, f_stream, senders, codecVars, serverVars, xferVars, lifeVars, clientVars>>

\* Thread 1 broadcasts a chat line of client 1; thread 2 broadcasts one of
\* client 3, or relays a FILE_DATA_CHUNK of client 3 to client 2.
WireInit ==
  /\ \E second \in {MakeMessage(BROADCAST_MESSAGE, 3, -1, <<111>>),
                    MakeMessage(FILE_DATA_CHUNK, 3, 2, <<255>>)} :
        /\ f_msgs = <<MakeMessage(BROADCAST_MESSAGE, 1, -1, <<104, 105>>), second>>
        /\ senders =
             [t \in SendingThreads |->
                [pc |-> IF f_msgs[t].header.type = BROADCAST_MESSAGE
                        THEN "BroadcastMessage" ELSE "relay",
                 data |-> <<>>, sent |-> 0, pieces |-> 0]]
  /\ f_stream = <<>>
  /\ f_delivered = 0
  /\ receive_buffer_ = <<>>
  /\ f_dispatched = <<>>
  /\ f_reads = 0
  /\ f_last = 0
  /\ CodecIdle
  /\ ServerIdle
  /\ XferIdle
  /\ LifeIdle
  /\ ClientIdle

WireNext ==
  \/ \E t \in SendingThreads :
        \/ SenderLock(t)
        \/ ClientHandlerSendMessage(t)
        \/ PosixSocketSend(t)
        \/ SenderUnlock(t)
  \/ WireReceive

SpecWire == WireInit /\ [][WireNext]_vars

\* C39: the bytes of each Message the server sends to one client reach that
\* client's stream contiguously, whichever threads send at the same time,
\* and the client's frame reassembly dispatches only Messages that were sent
\* and, once it has read everything, all of them.
FramesNotInterleaved ==
  /\ \E t \in SendingThreads, u \in SendingThreads :
        t # u /\ IsPrefix(f_stream, senders[t].data \o senders[u].data)
  /\ \A i \in DOMAIN f_dispatched :
        \E t \in SendingThreads : f_dispatched[i] = DeserializeMessage(senders[t].data)
  /\ ((\A t \in SendingThreads : senders[t].pc = "done") /\ f_delivered = Len(f_stream))
        => Len(f_dispatched) = Cardinality(SendingThreads)

-----------------------------------------------------------------------------
(* Headers that declare any 64-bit payload_size *)

\* The payload_size a peer of its own making writes into a header, as the
\* eight bytes of the size_t: 0, 2, 2^32, 2^63, 2^64 - 23 and 2^64 - 1.
HostileSizes ==
  { SizeT(0), SizeT(2),
    <<0, 0, 0, 0, 1, 0, 0, 0>>,
    <<0, 0, 0, 0, 0, 0, 0, 128>>,
    <<233, 255, 255, 255, 255, 255, 255, 255>>,
    <<255, 255, 255, 255, 255, 255, 255, 255>> }

\* The stream: a frame with the declared size and two payload bytes, then a
\* Message built by MakeMessage.
HostileInit ==
  /\ \E size \in HostileSizes :
        f_msgs = << [header |-> Header(BROADCAST_MESSAGE, 1, -1, size),
                     payload |-> <<104, 105>>],
                    MakeMessage(BROADCAST_MESSAGE, 1, -1, <<111>>) >>
  /\ \E pad \in PadValues : f_stream = StreamOf(f_msgs, pad)
  /\ f_delivered = 0
  /\ receive_buffer_ = <<>>
  /\ f_dispatched = <<>>
  /\ f_reads = 0
  /\ f_last = 0
  /\ senders = <<>>
  /\ CodecIdle
  /\ ServerIdle
  /\ XferIdle
  /\ LifeIdle
  /\ ClientIdle

HostileNext == FrameReceive

SpecHostile == HostileInit /\ [][HostileNext]_vars

\* the buffer holds the frame its first header declares: header length +
\* payload_size bytes, the sum taken in the integers
DeclaredFits(buf) ==
  /\ Len(buf) >= kMessageHeaderSize
  /\ SizeIsSmall(PeekPayloadSize(buf))
  /\ Len(buf) >= kMessageHeaderSize + SizeToNat(PeekPayloadSize(buf))

\* a read that dispatches a Message had the declared frame in the buffer,
\* removed at least that many bytes and decoded a slice of that length
NoWrapStep ==
  LET buf == receive_buffer_ \o SubSeq(f_stream, f_delivered + 1, f_delivered')
      declared == kMessageHeaderSize + SizeToNat(PeekPayloadSize(buf))
  IN f_dispatched' # f_dispatched =>
        /\ DeclaredFits(buf)
        /\ Len(buf) - Len(receive_buffer_') >= declared
        /\ f_dispatched'[Len(f_dispatched) + 1]
             = DeserializeMessage(SubSeq(buf, 1, declared))

\* C40: frame length arithmetic does not wrap: whatever 64-bit payload_size a
\* received header declares, the receive loop extracts a frame only when the
\* buffer holds header length + payload_size bytes, removes no fewer bytes
\* than that, and hands the decoder a slice of the declared length.
FrameLengthNoWrap == [][NoWrapStep]_vars

=============================================================================
